---------------------------- MODULE Spec2Model ----------------------------
(***************************************************************************)
(* The ensemble inference engine of api/beauty_ensemble.py: the lazily     *)
(* filled model cache (get_scut_model, get_mebeauty_model), the per-model  *)
(* preprocessing and prediction steps and the fusion rule of               *)
(* predict_beauty_ensemble, run by concurrent callers.                     *)
(*                                                                         *)
(* Python floats are IEEE-754 binary64 values.  They are modelled          *)
(* bit-exactly: a finite float is sign * mantissa * 2^exponent with a      *)
(* 53-bit normalized mantissa, kept as a little-endian sequence of 15-bit  *)
(* limbs, and +, * and / round to nearest, ties to even, as the hardware   *)
(* does.  Infinities, NaN, subnormals and the sign of zero are outside the *)
(* model: the inputs drawn below never reach them.                         *)
(***************************************************************************)
EXTENDS Integers, Sequences, FiniteSets, TLC

(***************************************************************************)
(* Natural numbers of arbitrary size, for the 53-bit mantissas and their   *)
(* 106-bit products, as sequences of limbs (least significant first).      *)
(***************************************************************************)
LimbBits == 15
Radix == 2^LimbBits
MantBits == 53

TailOf(x) == IF x = <<>> THEN <<>> ELSE Tail(x)
HeadOf(x) == IF x = <<>> THEN 0 ELSE Head(x)

RECURSIVE BTrim(_)
BTrim(x) ==
    IF x = <<>> THEN x
    ELSE IF x[Len(x)] = 0 THEN BTrim(SubSeq(x, 1, Len(x) - 1)) ELSE x

RECURSIVE BAddC(_, _, _)
BAddC(x, y, c) ==
    IF x = <<>> /\ y = <<>> THEN (IF c = 0 THEN <<>> ELSE <<c>>)
    ELSE LET s == HeadOf(x) + HeadOf(y) + c
         IN  <<s % Radix>> \o BAddC(TailOf(x), TailOf(y), s \div Radix)

BAdd(x, y) == BAddC(x, y, 0)

\* x - y - b for x >= y + b
RECURSIVE BSubB(_, _, _)
BSubB(x, y, b) ==
    IF x = <<>> THEN <<>>
    ELSE LET d == Head(x) - HeadOf(y) - b
         IN  IF d < 0
             THEN <<d + Radix>> \o BSubB(Tail(x), TailOf(y), 1)
             ELSE <<d>> \o BSubB(Tail(x), TailOf(y), 0)

BSub(x, y) == BTrim(BSubB(x, y, 0))

\* -1, 0, 1 as x < y, x = y, x > y (x and y trimmed)
RECURSIVE BCmpFrom(_, _, _)
BCmpFrom(x, y, i) ==
    IF i = 0 THEN 0
    ELSE IF x[i] < y[i] THEN -1
    ELSE IF x[i] > y[i] THEN 1
    ELSE BCmpFrom(x, y, i - 1)

BCmp(x, y) ==
    IF Len(x) < Len(y) THEN -1
    ELSE IF Len(x) > Len(y) THEN 1
    ELSE BCmpFrom(x, y, Len(x))

\* x * d + c for a limb d
RECURSIVE BMulSmallC(_, _, _)
BMulSmallC(x, d, c) ==
    IF x = <<>> THEN (IF c = 0 THEN <<>> ELSE <<c>>)
    ELSE LET p == Head(x) * d + c
         IN  <<p % Radix>> \o BMulSmallC(Tail(x), d, p \div Radix)

BMulSmall(x, d) == BTrim(BMulSmallC(x, d, 0))

RECURSIVE BMul(_, _)
BMul(x, y) ==
    IF y = <<>> \/ x = <<>> THEN <<>>
    ELSE LET rest == BMul(x, Tail(y))
         IN  BAdd(BMulSmall(x, Head(y)),
                  IF rest = <<>> THEN <<>> ELSE <<0>> \o rest)

Zeros(n) == [i \in 1..n |-> 0]

\* x * 2^k
BShl(x, k) ==
    IF x = <<>> THEN <<>>
    ELSE Zeros(k \div LimbBits) \o BMulSmall(x, 2^(k % LimbBits))

\* floor(x / d) for 0 < d < Radix, from the most significant limb down
RECURSIVE BDivSmallR(_, _, _, _)
BDivSmallR(x, d, i, r) ==
    IF i = 0 THEN <<>>
    ELSE LET n == r * Radix + x[i]
         IN  BDivSmallR(x, d, i - 1, n % d) \o <<n \div d>>

BDivSmall(x, d) == BTrim(BDivSmallR(x, d, Len(x), 0))

\* floor(x / 2^k)
BShr(x, k) ==
    LET q == k \div LimbBits
    IN  IF q >= Len(x) THEN <<>>
        ELSE BDivSmall(SubSeq(x, q + 1, Len(x)), 2^(k % LimbBits))

\* x mod 2^k
BLowBits(x, k) ==
    LET q == k \div LimbBits
        r == k % LimbBits
    IN  IF q >= Len(x) THEN x
        ELSE BTrim(SubSeq(x, 1, q) \o <<x[q + 1] % (2^r)>>)

RECURSIVE IntBits(_)
IntBits(n) == IF n = 0 THEN 0 ELSE 1 + IntBits(n \div 2)

BitLen(x) ==
    IF x = <<>> THEN 0 ELSE (Len(x) - 1) * LimbBits + IntBits(x[Len(x)])

BIsOdd(x) == x # <<>> /\ x[1] % 2 = 1

RECURSIVE BFromNat(_)
BFromNat(n) == IF n = 0 THEN <<>> ELSE <<n % Radix>> \o BFromNat(n \div Radix)

(***************************************************************************)
(* Floats.  [s, m, e] is s * m * 2^e with s in {1, -1} and m of exactly    *)
(* MantBits bits; zero has the empty mantissa.                             *)
(***************************************************************************)
FZero == [s |-> 1, m |-> <<>>, e |-> 0]

\* the float nearest to s * n * 2^e (ties to even)
FRound(s, n, e) ==
    LET len == BitLen(n)
    IN  IF len = 0 THEN FZero
        ELSE IF len <= MantBits
        THEN [s |-> s, m |-> BShl(n, MantBits - len), e |-> e - (MantBits - len)]
        ELSE LET sh   == len - MantBits
                 q    == BShr(n, sh)
                 c    == BCmp(BLowBits(n, sh), BShl(<<1>>, sh - 1))
                 up   == c > 0 \/ (c = 0 /\ BIsOdd(q))
                 q2   == IF up THEN BAdd(q, <<1>>) ELSE q
             IN  IF BitLen(q2) > MantBits
                 THEN [s |-> s, m |-> BShr(q2, 1), e |-> e + sh + 1]
                 ELSE [s |-> s, m |-> q2, e |-> e + sh]

FloatOfInt(n) == FRound(IF n < 0 THEN -1 ELSE 1, BFromNat(IF n < 0 THEN -n ELSE n), 0)

FloatNeg(a) == IF a.m = <<>> THEN a ELSE [a EXCEPT !.s = -a.s]

\* a + b (float.__add__)
FloatAdd(a, b) ==
    IF a.m = <<>> THEN b
    ELSE IF b.m = <<>> THEN a
    ELSE LET e  == IF a.e < b.e THEN a.e ELSE b.e
             na == BShl(a.m, a.e - e)
             nb == BShl(b.m, b.e - e)
             c  == BCmp(na, nb)
         IN  IF a.s = b.s THEN FRound(a.s, BAdd(na, nb), e)
             ELSE IF c = 0 THEN FZero
             ELSE IF c > 0 THEN FRound(a.s, BSub(na, nb), e)
             ELSE FRound(b.s, BSub(nb, na), e)

\* a * b (float.__mul__)
FloatMul(a, b) ==
    IF a.m = <<>> \/ b.m = <<>> THEN FZero
    ELSE FRound(a.s * b.s, BMul(a.m, b.m), a.e + b.e)

\* restoring division: <<floor((q * d + r) * 2^n / d), the remainder>> for r < d
RECURSIVE DivSteps(_, _, _, _)
DivSteps(q, r, d, n) ==
    IF n = 0 THEN <<q, r>>
    ELSE LET r2 == BAdd(r, r)
             q2 == BAdd(q, q)
             ge == BCmp(r2, d) >= 0
             q3 == IF ge THEN BAdd(q2, <<1>>) ELSE q2
             r3 == IF ge THEN BSub(r2, d) ELSE r2
         \* (the test has q3 and r3 evaluated at this step, not carried
         \* unevaluated through the n steps)
         IN  IF Len(q3) >= 0 /\ Len(r3) >= 0 THEN DivSteps(q3, r3, d, n - 1) ELSE <<>>

\* a / b for b # 0 (float.__truediv__; b = 0 raises ZeroDivisionError at the caller)
FloatDiv(a, b) ==
    IF a.m = <<>> THEN FZero
    ELSE LET n  == MantBits + 2
             ge == BCmp(a.m, b.m) >= 0
             qr == DivSteps(IF ge THEN <<1>> ELSE <<>>,
                            IF ge THEN BSub(a.m, b.m) ELSE a.m, b.m, n)
             \* the quotient is inexact exactly when a remainder is left: one more
             \* bit below the quotient records it for the rounding
             qs == BAdd(BAdd(qr[1], qr[1]), IF qr[2] = <<>> THEN <<>> ELSE <<1>>)
         IN  FRound(a.s * b.s, qs, a.e - b.e - n - 1)

\* -1, 0, 1 as a < b, a = b, a > b
FloatCmpAbs(a, b) ==
    IF a.m = <<>> /\ b.m = <<>> THEN 0
    ELSE IF a.m = <<>> THEN -1
    ELSE IF b.m = <<>> THEN 1
    ELSE IF a.e < b.e THEN -1
    ELSE IF a.e > b.e THEN 1
    ELSE BCmp(a.m, b.m)

FloatSign(a) == IF a.m = <<>> THEN 0 ELSE a.s

FloatCmp(a, b) ==
    IF FloatSign(a) < FloatSign(b) THEN -1
    ELSE IF FloatSign(a) > FloatSign(b) THEN 1
    ELSE IF FloatSign(a) >= 0 THEN FloatCmpAbs(a, b)
    ELSE FloatCmpAbs(b, a)

FloatLe(a, b) == FloatCmp(a, b) <= 0

\* the float a Python literal n/d denotes, e.g. Dec(3, 10) for 0.3
Dec(n, d) == FloatDiv(FloatOfInt(n), FloatOfInt(d))


(***************************************************************************)
(* Values of the program.  None is Python's None; a Python string s is     *)
(* Str(s), so that every optional value compares with None.                *)
(***************************************************************************)
None == [none |-> TRUE]
Str(s) == [str |-> s]

Models == {"scut", "mebeauty"}

\* target_size=(224, 224), the default of both preprocessors
TargetSize == 224

ERR_LOAD == Str("Failed to load one or both models")
ERR_PREPROCESS == Str("Failed to preprocess image for one or both models")
ERR_MEBEAUTY_FAILED == Str("MEBeauty model prediction failed, using only SCUT")
ERR_SCUT_FAILED == Str("SCUT model prediction failed, using only MEBeauty")
ERR_BOTH_FAILED == Str("Both model predictions failed")
ERR_EXCEPTION == Str("Error in ensemble prediction: float division by zero")

\* result = {...}: the record every call starts from
EmptyResult ==
    [ensemble_score |-> None, scut_score |-> None,
     mebeauty_score |-> None, error |-> None]

One == FloatOfInt(1)

(***************************************************************************)
(* The pure part of predict_beauty_ensemble.                               *)
(***************************************************************************)
\* a faulty variant of NormalizeWeights: the weights are never divided by their sum
NormalizeWeights_NoDivision(scut_weight, mebeauty_weight) ==
    IF FloatAdd(scut_weight, mebeauty_weight) = FZero THEN None
    ELSE [scut_weight |-> scut_weight, mebeauty_weight |-> mebeauty_weight]

\* a faulty variant of NormalizeWeights: only the SCUT weight is divided by the sum
NormalizeWeights_DividesScutOnly(scut_weight, mebeauty_weight) ==
    LET total_weight == FloatAdd(scut_weight, mebeauty_weight)
    IN  IF total_weight # One
        THEN IF total_weight = FZero THEN None
             ELSE [scut_weight |-> FloatDiv(scut_weight, total_weight),
                   mebeauty_weight |-> mebeauty_weight]
        ELSE [scut_weight |-> scut_weight, mebeauty_weight |-> mebeauty_weight]

\* lines 229-232: the weights the fusion uses, or None when the division
\* raises ZeroDivisionError
NormalizeWeights(scut_weight, mebeauty_weight) ==
    LET total_weight == FloatAdd(scut_weight, mebeauty_weight)
    IN  IF total_weight # One
        THEN IF total_weight = FZero THEN None
             ELSE [scut_weight     |-> FloatDiv(scut_weight, total_weight),
                   mebeauty_weight |-> FloatDiv(mebeauty_weight, total_weight)]
        ELSE [scut_weight |-> scut_weight, mebeauty_weight |-> mebeauty_weight]

\* a faulty variant of WeightedSum: each score is multiplied by the other
\* model's weight
WeightedSum_Swapped(scut_weight, scut_score, mebeauty_weight, mebeauty_score) ==
    FloatAdd(FloatMul(mebeauty_weight, scut_score),
             FloatMul(scut_weight, mebeauty_score))

\* a faulty variant of WeightedSum: the scores are added without their weights
WeightedSum_Unweighted(scut_weight, scut_score, mebeauty_weight, mebeauty_score) ==
    FloatAdd(scut_score, mebeauty_score)

\* lines 261-263
WeightedSum(scut_weight, scut_score, mebeauty_weight, mebeauty_score) ==
    FloatAdd(FloatMul(scut_weight, scut_score),
             FloatMul(mebeauty_weight, mebeauty_score))

\* a faulty variant of Fuse: the single-model fallback applies the model's weight
Fuse_WeightedFallback(scut_weight, mebeauty_weight, scut_score, mebeauty_score) ==
    LET result == [EmptyResult EXCEPT !.scut_score = scut_score,
                                      !.mebeauty_score = mebeauty_score]
    IN  IF scut_score # None /\ mebeauty_score # None
        THEN [result EXCEPT !.ensemble_score =
                 FloatAdd(FloatMul(scut_weight, scut_score),
                          FloatMul(mebeauty_weight, mebeauty_score))]
        ELSE IF scut_score # None
        THEN [result EXCEPT !.ensemble_score = FloatMul(scut_weight, scut_score),
                            !.error = ERR_MEBEAUTY_FAILED]
        ELSE IF mebeauty_score # None
        THEN [result EXCEPT !.ensemble_score = FloatMul(mebeauty_weight, mebeauty_score),
                            !.error = ERR_SCUT_FAILED]
        ELSE [result EXCEPT !.error = ERR_BOTH_FAILED]

\* a faulty variant of Fuse: the final else branch (line 273) is missing, so a
\* total failure leaves the result without a diagnostic
Fuse_NoTotalFailureBranch(scut_weight, mebeauty_weight, scut_score, mebeauty_score) ==
    LET result == [EmptyResult EXCEPT !.scut_score = scut_score,
                                      !.mebeauty_score = mebeauty_score]
    IN  IF scut_score # None /\ mebeauty_score # None
        THEN [result EXCEPT !.ensemble_score =
                 FloatAdd(FloatMul(scut_weight, scut_score),
                          FloatMul(mebeauty_weight, mebeauty_score))]
        ELSE IF scut_score # None
        THEN [result EXCEPT !.ensemble_score = scut_score,
                            !.error = ERR_MEBEAUTY_FAILED]
        ELSE IF mebeauty_score # None
        THEN [result EXCEPT !.ensemble_score = mebeauty_score,
                            !.error = ERR_SCUT_FAILED]
        ELSE result

\* a faulty variant of Fuse: the individual scores (lines 255-256) are stored
\* only when both predictions succeeded
Fuse_ScoresOnlyOnSuccess(scut_weight, mebeauty_weight, scut_score, mebeauty_score) ==
    IF scut_score # None /\ mebeauty_score # None
    THEN [EmptyResult EXCEPT !.scut_score = scut_score,
                             !.mebeauty_score = mebeauty_score,
                             !.ensemble_score =
                                 FloatAdd(FloatMul(scut_weight, scut_score),
                                          FloatMul(mebeauty_weight, mebeauty_score))]
    ELSE IF scut_score # None
    THEN [EmptyResult EXCEPT !.ensemble_score = scut_score,
                             !.error = ERR_MEBEAUTY_FAILED]
    ELSE IF mebeauty_score # None
    THEN [EmptyResult EXCEPT !.ensemble_score = mebeauty_score,
                             !.error = ERR_SCUT_FAILED]
    ELSE [EmptyResult EXCEPT !.error = ERR_BOTH_FAILED]

\* a faulty variant of Fuse: the single-model fallbacks set no diagnostic
Fuse_SilentFallback(scut_weight, mebeauty_weight, scut_score, mebeauty_score) ==
    LET result == [EmptyResult EXCEPT !.scut_score = scut_score,
                                      !.mebeauty_score = mebeauty_score]
    IN  IF scut_score # None /\ mebeauty_score # None
        THEN [result EXCEPT !.ensemble_score =
                 FloatAdd(FloatMul(scut_weight, scut_score),
                          FloatMul(mebeauty_weight, mebeauty_score))]
        ELSE IF scut_score # None
        THEN [result EXCEPT !.ensemble_score = scut_score]
        ELSE IF mebeauty_score # None
        THEN [result EXCEPT !.ensemble_score = mebeauty_score]
        ELSE [result EXCEPT !.error = ERR_BOTH_FAILED]

\* a faulty variant of Fuse: a surviving model of weight 0 is not fallen back on
Fuse_FallbackNeedsWeight(scut_weight, mebeauty_weight, scut_score, mebeauty_score) ==
    LET result == [EmptyResult EXCEPT !.scut_score = scut_score,
                                      !.mebeauty_score = mebeauty_score]
    IN  IF scut_score # None /\ mebeauty_score # None
        THEN [result EXCEPT !.ensemble_score =
                 FloatAdd(FloatMul(scut_weight, scut_score),
                          FloatMul(mebeauty_weight, mebeauty_score))]
        ELSE IF scut_score # None /\ scut_weight # FZero
        THEN [result EXCEPT !.ensemble_score = scut_score,
                            !.error = ERR_MEBEAUTY_FAILED]
        ELSE IF mebeauty_score # None /\ mebeauty_weight # FZero
        THEN [result EXCEPT !.ensemble_score = mebeauty_score,
                            !.error = ERR_SCUT_FAILED]
        ELSE [result EXCEPT !.error = ERR_BOTH_FAILED]

\* lines 254-274: the result record from the two prediction outcomes
Fuse(scut_weight, mebeauty_weight, scut_score, mebeauty_score) ==
    LET result == [EmptyResult EXCEPT !.scut_score = scut_score,
                                      !.mebeauty_score = mebeauty_score]
    IN  IF scut_score # None /\ mebeauty_score # None
        THEN [result EXCEPT !.ensemble_score =
                 WeightedSum(scut_weight, scut_score, mebeauty_weight, mebeauty_score)]
        ELSE IF scut_score # None
        THEN [result EXCEPT !.ensemble_score = scut_score,
                            !.error = ERR_MEBEAUTY_FAILED]
        ELSE IF mebeauty_score # None
        THEN [result EXCEPT !.ensemble_score = mebeauty_score,
                            !.error = ERR_SCUT_FAILED]
        ELSE [result EXCEPT !.error = ERR_BOTH_FAILED]

(***************************************************************************)
(* Images and tensors.  An image is what the caller passes: a path         *)
(* (kind "path"), a pixel array (kind "array") or a decoded image (kind    *)
(* "pil").  ok says whether it can be opened and transformed.  The images  *)
(* of the model are of one colour: every pixel has the band values px, in  *)
(* the order of the mode ("RGB", "RGBA", "L", "LA"), each band 0..255.     *)
(* size is <<width, height>>.  A resampling filter maps an image of one    *)
(* colour to an image of that colour, so the values below are exact for    *)
(* every filter.                                                           *)
(***************************************************************************)
DefaultTargetSize == <<TargetSize, TargetSize>>
LargeSize == <<2 * TargetSize, 2 * TargetSize>>

Face == [id |-> "face", ok |-> TRUE, kind |-> "path", mode |-> "RGB",
         size |-> LargeSize, px |-> <<200, 150, 100>>, dtype |-> "uint8"]
Other == [id |-> "other", ok |-> TRUE, kind |-> "array", mode |-> "RGB",
          size |-> DefaultTargetSize, px |-> <<40, 60, 80>>, dtype |-> "uint8"]
Corrupt == [id |-> "corrupt", ok |-> FALSE, kind |-> "path", mode |-> "RGB",
            size |-> LargeSize, px |-> <<0, 0, 0>>, dtype |-> "uint8"]
ImageIds == {"face", "other"}

Translucent == [id |-> "translucent", ok |-> TRUE, kind |-> "pil", mode |-> "RGBA",
                size |-> LargeSize, px |-> <<200, 150, 140, 128>>, dtype |-> "uint8"]
Transparent == [id |-> "transparent", ok |-> TRUE, kind |-> "path", mode |-> "RGBA",
                size |-> LargeSize, px |-> <<200, 150, 100, 0>>, dtype |-> "uint8"]
Opaque == [id |-> "opaque", ok |-> TRUE, kind |-> "path", mode |-> "RGBA",
           size |-> LargeSize, px |-> <<200, 150, 100, 255>>, dtype |-> "uint8"]
SameSize == [id |-> "samesize", ok |-> TRUE, kind |-> "array", mode |-> "RGBA",
             size |-> DefaultTargetSize, px |-> <<200, 150, 100, 128>>, dtype |-> "uint8"]
Grey == [id |-> "grey", ok |-> TRUE, kind |-> "array", mode |-> "L",
         size |-> LargeSize, px |-> <<90>>, dtype |-> "uint8"]

ImageInputs == {Face, Other, Corrupt, Translucent, Transparent, Opaque, SameSize, Grey}

\* What the memory (or the file) of every image holds when the program starts.
\* A call is given a reference to an image, and preprocessing reads what the
\* image holds at that moment.
InitialSources ==
    [id \in {image.id : image \in ImageInputs} |->
        LET image == CHOOSE i \in ImageInputs : i.id = id
        IN  [mode |-> image.mode, size |-> image.size, px |-> image.px,
             dtype |-> image.dtype]]

\* the image argument with what its memory holds in srcs
Current(image, srcs) ==
    [id |-> image.id, ok |-> image.ok, kind |-> image.kind,
     mode |-> srcs[image.id].mode, size |-> srcs[image.id].size,
     px |-> srcs[image.id].px, dtype |-> srcs[image.id].dtype]

\* lines 90-93 / 133-136: Image.open reads the file into a new image,
\* Image.fromarray wraps the array, and a decoded image is used as it is.
\* shared says whether the object uses the memory of the caller's image:
\* Image.fromarray maps the buffer of an "L" or "RGBA" array and copies the
\* others.
open(image) ==
    [id |-> image.id, mode |-> image.mode, size |-> image.size, px |-> image.px,
     shared |-> \/ image.kind = "pil"
                \/ image.kind = "array" /\ image.mode \in {"L", "RGBA"}]

\* Pillow's 8-bit arithmetic: a * b / 255 rounded, and the clamp to 0..255
MULDIV255(a, b) == LET tmp == a * b + 128 IN ((tmp \div 256) + tmp) \div 256
CLIP8(v) == IF v < 0 THEN 0 ELSE IF v > 255 THEN 255 ELSE v

HasAlpha(mode) == mode \in {"LA", "RGBA"}

\* the conversion to premultiplied alpha ("RGBa", "La") and back, as Image.resize
\* does around the resampling of an image with an alpha band
Premultiply(px) ==
    [i \in 1..Len(px) |-> IF i < Len(px) THEN MULDIV255(px[i], px[Len(px)]) ELSE px[i]]

Unpremultiply(px) ==
    LET alpha == px[Len(px)]
    IN  [i \in 1..Len(px) |->
            IF i = Len(px) \/ alpha = 255 \/ alpha = 0 THEN px[i]
            ELSE CLIP8((255 * px[i]) \div alpha)]

\* lines 96 / 139: image.resize(target_size) with the default filter (bicubic)
\* returns a new image.  An image that already has the size is copied; an image
\* with an alpha band is resampled in premultiplied form.
resize(image, target_size) ==
    IF image.size = target_size THEN [image EXCEPT !.shared = FALSE]
    ELSE IF HasAlpha(image.mode)
    THEN [image EXCEPT !.size = target_size, !.shared = FALSE,
                       !.px = Unpremultiply(Premultiply(image.px))]
    ELSE [image EXCEPT !.size = target_size, !.shared = FALSE]

\* lines 99-100 / 142-143: image.convert("RGB") returns a new image; it drops
\* the alpha band and repeats the luminance of a grayscale image in the three
\* bands
convert_RGB(image) ==
    [image EXCEPT !.mode = "RGB", !.shared = FALSE,
                  !.px = IF image.mode = "RGBA" THEN SubSeq(image.px, 1, 3)
                         ELSE IF image.mode \in {"L", "LA"}
                         THEN <<image.px[1], image.px[1], image.px[1]>>
                         ELSE image.px]

\* lines 103 / 146: np.array(image).astype(np.float32), a new array of shape
\* (height, width, 3).  The values are kept in thousandths.
np_array(image) ==
    [h |-> image.size[2], w |-> image.size[1],
     px |-> [i \in 1..Len(image.px) |-> 1000 * image.px[i]],
     shared |-> FALSE]

\* lines 106 / 149: resnet50.preprocess_input reverses the channels (RGB to BGR)
\* and subtracts 103.939, 116.779 and 123.68 from them, in the array it is given
ChannelMeans == <<103939, 116779, 123680>>
preprocess_input(img_array) ==
    [img_array EXCEPT !.px = [i \in 1..3 |-> img_array.px[4 - i] - ChannelMeans[i]]]

\* lines 88-117: the (1, height, width, 3) tensor of the image, or None when a
\* step raises (a file that is not an image, an array of floats).  of names the
\* image the tensor was computed from.
preprocess_for_scut(image, target_size) ==
    IF ~image.ok \/ image.dtype # "uint8" THEN None
    ELSE LET resized == resize(open(image), target_size)
             rgb == IF resized.mode # "RGB" THEN convert_RGB(resized) ELSE resized
             img_array == preprocess_input(np_array(rgb))
         IN  [h |-> img_array.h, w |-> img_array.w, px |-> img_array.px,
              of |-> image.id, shared |-> img_array.shared]

\* a variant of preprocess_for_mebeauty with a profile of its own: the values
\* are scaled to -1..1 (x / 127.5 - 1) and the channels keep their order
preprocess_for_mebeauty_Scaled(image, target_size) ==
    IF ~image.ok \/ image.dtype # "uint8" THEN None
    ELSE LET resized == resize(open(image), target_size)
             rgb == IF resized.mode # "RGB" THEN convert_RGB(resized) ELSE resized
             img_array == np_array(rgb)
         IN  [h |-> img_array.h, w |-> img_array.w,
              px |-> [i \in 1..3 |-> (2 * img_array.px[i]) \div 255 - 1000],
              of |-> image.id, shared |-> img_array.shared]

\* lines 131-160
preprocess_for_mebeauty(image, target_size) ==
    IF ~image.ok \/ image.dtype # "uint8" THEN None
    ELSE LET resized == resize(open(image), target_size)
             rgb == IF resized.mode # "RGB" THEN convert_RGB(resized) ELSE resized
             img_array == preprocess_input(np_array(rgb))
         IN  [h |-> img_array.h, w |-> img_array.w, px |-> img_array.px,
              of |-> image.id, shared |-> img_array.shared]

\* lines 106 / 149: an array that uses the memory of the caller's image would
\* leave the normalised float values in that image
Written(srcs, image, tensor) ==
    IF tensor # None /\ tensor.shared
    THEN [srcs EXCEPT ![image.id] = [mode |-> "RGB", size |-> <<tensor.w, tensor.h>>,
                                     px |-> tensor.px, dtype |-> "float32"]]
    ELSE srcs

\* lines 184-186: tf.image.resize(preprocessed_image, (height, width)).numpy();
\* the interpolation of equal values gives that value
tf_image_resize(tensor, shape) == [tensor EXCEPT !.h = shape[1], !.w = shape[2]]

\* what interpreter.invoke() does when it fails
Raise == [raise |-> TRUE]

(***************************************************************************)
(* Bounds of the model.                                                    *)
(***************************************************************************)
NumCallers == 2
MaxCalls == 2
Callers == 1..NumCallers

(***************************************************************************)
(* State.                                                                  *)
(*   cache        the globals scut_interpreter and mebeauty_interpreter    *)
(*   interp       the interpreter objects made so far; the handle [h |-> i]*)
(*                refers to interp[i]                                      *)
(*   attempts     calls of load_tflite_model per model                     *)
(*   model_output what each model file holds: the input shape it declares, *)
(*                and what the trained network computes for each image, a  *)
(*                float, or Raise when the invocation fails                *)
(*   sources      what the memory or the file of each image holds          *)
(*   th           each caller's position in predict_beauty_ensemble and    *)
(*                its local variables                                      *)
(*   calls        calls of predict_beauty_ensemble started                 *)
(*   log          the calls that returned, in order of return              *)
(***************************************************************************)
VARIABLES cache, interp, attempts, model_output, sources, th, calls, log

vars == <<cache, interp, attempts, model_output, sources, th, calls, log>>

IdleThread ==
    [pc |-> "idle", m |-> "scut", image |-> None,
     arg_scut_weight |-> None, arg_mebeauty_weight |-> None,
     scut_weight |-> None, mebeauty_weight |-> None,
     loaded |-> None, scut_model |-> None, mebeauty_model |-> None,
     scut_img |-> None, mebeauty_img |-> None,
     scut_score |-> None, mebeauty_score |-> None,
     result |-> EmptyResult, steps |-> <<>>, failed_loads |-> {}]

\* the state after the module is imported (lines 56-58)
InitWith(outputs) ==
    /\ cache = [m \in Models |-> None]
    /\ interp = <<>>
    /\ attempts = [m \in Models |-> 0]
    /\ model_output \in outputs
    /\ sources = InitialSources
    /\ th = [c \in Callers |-> IdleThread]
    /\ calls = 0
    /\ log = <<>>

Step(t, name) == [t EXCEPT !.steps = Append(t.steps, name)]

\* a caller enters predict_beauty_ensemble(image, scut_weight, mebeauty_weight):
\* lines 208-225
Call(c, image, scut_weight, mebeauty_weight) ==
    /\ th[c].pc = "idle"
    /\ calls < MaxCalls
    /\ calls' = calls + 1
    /\ th' = [th EXCEPT ![c] =
                 [IdleThread EXCEPT !.pc = "normalize", !.image = image,
                                    !.arg_scut_weight = scut_weight,
                                    !.arg_mebeauty_weight = mebeauty_weight,
                                    !.scut_weight = scut_weight,
                                    !.mebeauty_weight = mebeauty_weight]]
    /\ UNCHANGED <<cache, interp, attempts, model_output, sources, log>>

\* a faulty variant of Normalize: a zero weight sum skips the division instead of
\* raising, and the call goes on to the models
Normalize_SkipsZeroSum(c) ==
    /\ th[c].pc = "normalize"
    /\ LET w == NormalizeWeights(th[c].scut_weight, th[c].mebeauty_weight)
           t == Step(th[c], "normalize")
       IN  th' = [th EXCEPT ![c] =
                     IF w = None
                     THEN [t EXCEPT !.pc = "check", !.m = "scut"]
                     ELSE [t EXCEPT !.pc = "check", !.m = "scut",
                                    !.scut_weight = w.scut_weight,
                                    !.mebeauty_weight = w.mebeauty_weight]]
    /\ UNCHANGED <<cache, interp, attempts, model_output, sources, calls, log>>

\* lines 228-232, and lines 276-279 when the division raises
Normalize(c) ==
    /\ th[c].pc = "normalize"
    /\ LET w == NormalizeWeights(th[c].scut_weight, th[c].mebeauty_weight)
           t == Step(th[c], "normalize")
       IN  th' = [th EXCEPT ![c] =
                     IF w = None
                     THEN [t EXCEPT !.pc = "return",
                                    !.result = [t.result EXCEPT !.error = ERR_EXCEPTION]]
                     ELSE [t EXCEPT !.pc = "check", !.m = "scut",
                                    !.scut_weight = w.scut_weight,
                                    !.mebeauty_weight = w.mebeauty_weight]]
    /\ UNCHANGED <<cache, interp, attempts, model_output, sources, calls, log>>

\* a faulty variant of Check: the getter loads the model on every call
Check_AlwaysLoads(c) ==
    /\ th[c].pc = "check"
    /\ th' = [th EXCEPT ![c] = [Step(@, "check_" \o @.m) EXCEPT !.pc = "construct"]]
    /\ UNCHANGED <<cache, interp, attempts, model_output, sources, calls, log>>

\* a faulty variant of Check: the getter remembers that a load was attempted and
\* never attempts a second one
Check_NoRetry(c) ==
    /\ th[c].pc = "check"
    /\ th' = [th EXCEPT ![c] =
                 [Step(@, "check_" \o @.m) EXCEPT
                     !.pc = IF cache[th[c].m] = None /\ attempts[th[c].m] = 0
                            THEN "construct" ELSE "read"]]
    /\ UNCHANGED <<cache, interp, attempts, model_output, sources, calls, log>>

\* get_scut_model / get_mebeauty_model, the test of line 64 / 72
Check(c) ==
    /\ th[c].pc = "check"
    /\ th' = [th EXCEPT ![c] =
                 [Step(@, "check_" \o @.m) EXCEPT
                     !.pc = IF cache[th[c].m] = None THEN "construct" ELSE "read"]]
    /\ UNCHANGED <<cache, interp, attempts, model_output, sources, calls, log>>

\* load_tflite_model, line 47: tf.lite.Interpreter(model_path=...) makes a new
\* interpreter, or raises (lines 50-53: the load returns None).  The interpreter
\* declares the input shape <<height, width>> of the model file.
Construct(c, ok) ==
    /\ th[c].pc = "construct"
    /\ attempts' = [attempts EXCEPT ![th[c].m] = @ + 1]
    /\ IF ok
       THEN /\ interp' = Append(interp, [model |-> th[c].m, allocated |-> FALSE,
                                         shape |-> model_output[th[c].m].shape,
                                         input |-> None, output |-> None,
                                         busy |-> 0, raced |-> FALSE])
            /\ th' = [th EXCEPT ![c] =
                         [Step(@, "load_" \o @.m) EXCEPT
                             !.pc = "allocate", !.loaded = [h |-> Len(interp) + 1]]]
       ELSE /\ interp' = interp
            /\ th' = [th EXCEPT ![c] =
                         [Step(@, "load_" \o @.m) EXCEPT
                             !.pc = "store", !.loaded = None,
                             !.failed_loads = th[c].failed_loads \cup {th[c].m}]]
    /\ UNCHANGED <<cache, model_output, sources, calls, log>>

\* a faulty variant of Allocate: when allocate_tensors raises, the load returns
\* the interpreter it constructed
Allocate_ReturnsUnallocated(c, ok) ==
    /\ th[c].pc = "allocate"
    /\ IF ok
       THEN /\ interp' = [interp EXCEPT ![th[c].loaded.h].allocated = TRUE]
            /\ th' = [th EXCEPT ![c].pc = "store"]
       ELSE /\ interp' = interp
            /\ th' = [th EXCEPT ![c].pc = "store"]
    /\ UNCHANGED <<cache, attempts, model_output, sources, calls, log>>

\* load_tflite_model, lines 48-49: interpreter.allocate_tensors(), or lines 50-53
Allocate(c, ok) ==
    /\ th[c].pc = "allocate"
    /\ IF ok
       THEN /\ interp' = [interp EXCEPT ![th[c].loaded.h].allocated = TRUE]
            /\ th' = [th EXCEPT ![c].pc = "store"]
       ELSE /\ interp' = interp
            /\ th' = [th EXCEPT ![c].pc = "store", ![c].loaded = None,
                                ![c].failed_loads = th[c].failed_loads \cup {th[c].m}]
    /\ UNCHANGED <<cache, attempts, model_output, sources, calls, log>>

\* the assignment of line 65 / 73
Store(c) ==
    /\ th[c].pc = "store"
    /\ cache' = [cache EXCEPT ![th[c].m] = th[c].loaded]
    /\ th' = [th EXCEPT ![c].pc = "read", ![c].loaded = None]
    /\ UNCHANGED <<interp, attempts, model_output, sources, calls, log>>

\* a faulty variant of Read: line 238 tests the SCUT handle only
Read_ChecksScutOnly(c) ==
    /\ th[c].pc = "read"
    /\ LET t == th[c]
       IN  th' = [th EXCEPT ![c] =
                     IF t.m = "scut"
                     THEN [t EXCEPT !.scut_model = cache["scut"],
                                    !.m = "mebeauty", !.pc = "check"]
                     ELSE IF t.scut_model = None
                     THEN [t EXCEPT !.mebeauty_model = cache["mebeauty"],
                                    !.pc = "return",
                                    !.result = [t.result EXCEPT !.error = ERR_LOAD]]
                     ELSE [t EXCEPT !.mebeauty_model = cache["mebeauty"],
                                    !.pc = "preprocess"]]
    /\ UNCHANGED <<cache, interp, attempts, model_output, sources, calls, log>>

\* a faulty variant of Read: with both handles acquired the call goes to the
\* predictions without preprocessing
Read_SkipsPreprocessing(c) ==
    /\ th[c].pc = "read"
    /\ LET t == th[c]
       IN  th' = [th EXCEPT ![c] =
                     IF t.m = "scut"
                     THEN [t EXCEPT !.scut_model = cache["scut"],
                                    !.m = "mebeauty", !.pc = "check"]
                     ELSE IF t.scut_model = None \/ cache["mebeauty"] = None
                     THEN [t EXCEPT !.mebeauty_model = cache["mebeauty"],
                                    !.pc = "return",
                                    !.result = [t.result EXCEPT !.error = ERR_LOAD]]
                     ELSE [t EXCEPT !.mebeauty_model = cache["mebeauty"],
                                    !.m = "scut", !.pc = "set_tensor"]]
    /\ UNCHANGED <<cache, interp, attempts, model_output, sources, calls, log>>

\* a faulty variant of Read: the call gives up as soon as the SCUT getter
\* returns no handle, without asking for the MEBeauty handle
Read_StopsAtFirstFailure(c) ==
    /\ th[c].pc = "read"
    /\ LET t == th[c]
       IN  th' = [th EXCEPT ![c] =
                     IF t.m = "scut"
                     THEN IF cache["scut"] = None
                          THEN [t EXCEPT !.pc = "return",
                                         !.result = [t.result EXCEPT !.error = ERR_LOAD]]
                          ELSE [t EXCEPT !.scut_model = cache["scut"],
                                         !.m = "mebeauty", !.pc = "check"]
                     ELSE IF t.scut_model = None \/ cache["mebeauty"] = None
                     THEN [t EXCEPT !.mebeauty_model = cache["mebeauty"],
                                    !.pc = "return",
                                    !.result = [t.result EXCEPT !.error = ERR_LOAD]]
                     ELSE [t EXCEPT !.mebeauty_model = cache["mebeauty"],
                                    !.pc = "preprocess"]]
    /\ UNCHANGED <<cache, interp, attempts, model_output, sources, calls, log>>

\* return scut_interpreter (line 66) into scut_model (line 235); return
\* mebeauty_interpreter (line 74) into mebeauty_model (line 236) and the test of
\* lines 238-240
Read(c) ==
    /\ th[c].pc = "read"
    /\ LET t == th[c]
       IN  th' = [th EXCEPT ![c] =
                     IF t.m = "scut"
                     THEN [t EXCEPT !.scut_model = cache["scut"],
                                    !.m = "mebeauty", !.pc = "check"]
                     ELSE IF t.scut_model = None \/ cache["mebeauty"] = None
                     THEN [t EXCEPT !.mebeauty_model = cache["mebeauty"],
                                    !.pc = "return",
                                    !.result = [t.result EXCEPT !.error = ERR_LOAD]]
                     ELSE [t EXCEPT !.mebeauty_model = cache["mebeauty"],
                                    !.pc = "preprocess"]]
    /\ UNCHANGED <<cache, interp, attempts, model_output, sources, calls, log>>

\* a faulty variant of Preprocess: a tensor that could not be prepared is
\* replaced by a default tensor and the call goes on
Preprocess_DefaultTensor(c) ==
    /\ th[c].pc = "preprocess"
    /\ LET t == Step(th[c], "preprocess")
           default == [h |-> TargetSize, w |-> TargetSize, px |-> <<0, 0, 0>>,
                       of |-> "face", shared |-> FALSE]
           scut_img == preprocess_for_scut(Current(t.image, sources), DefaultTargetSize)
           written == Written(sources, t.image, scut_img)
           mebeauty_img ==
               preprocess_for_mebeauty(Current(t.image, written), DefaultTargetSize)
       IN  /\ th' = [th EXCEPT ![c] =
                     [t EXCEPT !.scut_img = IF scut_img = None THEN default ELSE scut_img,
                               !.mebeauty_img = IF mebeauty_img = None THEN default
                                                ELSE mebeauty_img,
                               !.m = "scut", !.pc = "set_tensor"]]
           /\ sources' = Written(written, t.image, mebeauty_img)
    /\ UNCHANGED <<cache, interp, attempts, model_output, calls, log>>

\* a faulty variant of Preprocess: the images pass through the random
\* brightness of the training pipeline (train_scut_model.py, lines 333-341,
\* RandomBrightness(0.1): a shift drawn anew for every image, here none or a
\* tenth of the value range)
Preprocess_Augments(c) ==
    /\ th[c].pc = "preprocess"
    /\ \E scut_shift, mebeauty_shift \in {0, 25500} :
          LET t == Step(th[c], "preprocess")
              augmentation(tensor, shift) ==
                  IF tensor = None THEN None
                  ELSE [tensor EXCEPT !.px = [i \in 1..3 |-> tensor.px[i] + shift]]
              scut_img ==
                  augmentation(preprocess_for_scut(Current(t.image, sources),
                                                   DefaultTargetSize), scut_shift)
              written == Written(sources, t.image, scut_img)
              mebeauty_img ==
                  augmentation(preprocess_for_mebeauty(Current(t.image, written),
                                                       DefaultTargetSize), mebeauty_shift)
          IN  /\ th' = [th EXCEPT ![c] =
                        IF scut_img = None \/ mebeauty_img = None
                        THEN [t EXCEPT !.scut_img = scut_img, !.mebeauty_img = mebeauty_img,
                                       !.pc = "return",
                                       !.result = [t.result EXCEPT !.error = ERR_PREPROCESS]]
                        ELSE [t EXCEPT !.scut_img = scut_img, !.mebeauty_img = mebeauty_img,
                                       !.m = "scut", !.pc = "set_tensor"]]
              /\ sources' = Written(written, t.image, mebeauty_img)
    /\ UNCHANGED <<cache, interp, attempts, model_output, calls, log>>

\* lines 242-248: the two tensors are prepared one after the other, each from
\* what the image holds when its function reads it
Preprocess(c) ==
    /\ th[c].pc = "preprocess"
    /\ LET t == Step(th[c], "preprocess")
           scut_img == preprocess_for_scut(Current(t.image, sources), DefaultTargetSize)
           written == Written(sources, t.image, scut_img)
           mebeauty_img ==
               preprocess_for_mebeauty(Current(t.image, written), DefaultTargetSize)
       IN  /\ th' = [th EXCEPT ![c] =
                     IF scut_img = None \/ mebeauty_img = None
                     THEN [t EXCEPT !.scut_img = scut_img, !.mebeauty_img = mebeauty_img,
                                    !.pc = "return",
                                    !.result = [t.result EXCEPT !.error = ERR_PREPROCESS]]
                     ELSE [t EXCEPT !.scut_img = scut_img, !.mebeauty_img = mebeauty_img,
                                    !.m = "scut", !.pc = "set_tensor"]]
           /\ sources' = Written(written, t.image, mebeauty_img)
    /\ UNCHANGED <<cache, interp, attempts, model_output, calls, log>>

HandleOf(t) == IF t.m = "scut" THEN t.scut_model ELSE t.mebeauty_model
TensorOf(t) == IF t.m = "scut" THEN t.scut_img ELSE t.mebeauty_img

\* a faulty variant of AfterPredict: a failed SCUT prediction ends the
\* predictions, and the MEBeauty model is not queried
AfterPredict_StopsOnFailure(t, score) ==
    IF t.m = "scut"
    THEN IF score = None
         THEN [t EXCEPT !.scut_score = score, !.pc = "fuse"]
         ELSE [t EXCEPT !.scut_score = score, !.m = "mebeauty", !.pc = "set_tensor"]
    ELSE [t EXCEPT !.mebeauty_score = score, !.pc = "fuse"]

\* a faulty variant of AfterPredict: the fusion starts as soon as the SCUT
\* prediction has returned
AfterPredict_FusesEarly(t, score) ==
    IF t.m = "scut"
    THEN [t EXCEPT !.scut_score = score, !.pc = "fuse"]
    ELSE [t EXCEPT !.mebeauty_score = score, !.pc = "fuse"]

\* the caller's position after predict_with_tflite returned score for model t.m
\* (lines 251-252)
AfterPredict(t, score) ==
    IF t.m = "scut"
    THEN [t EXCEPT !.scut_score = score, !.m = "mebeauty", !.pc = "set_tensor"]
    ELSE [t EXCEPT !.mebeauty_score = score, !.pc = "fuse"]

(***************************************************************************)
(* The interpreter is not safe for use by two threads at once, and         *)
(* interpreter.invoke() lets other threads run while it computes.  busy    *)
(* counts the inferences running in an interpreter; raced says that,       *)
(* while one ran, another call wrote the input or started an inference of  *)
(* its own.  An inference that raced leaves any of the outcomes below.     *)
(***************************************************************************)
\* an output computed from an input that was replaced part way
MixedOutput == Dec(25, 10)

\* the process dies inside the library
Crash == [crash |-> TRUE]

\* how an inference that raced may end: with the output for the input the
\* interpreter holds at the end, with another output, with an exception or with
\* the death of the process
RaceOutcomes(own) == {own, MixedOutput, Raise, Crash}

Crashed == [c \in Callers |-> [th[c] EXCEPT !.pc = "crashed"]]

\* a faulty variant of SetTensor: the tensor is given to the interpreter as it
\* was prepared, whatever shape the interpreter declares
SetTensor_NoResize(c) ==
    /\ th[c].pc = "set_tensor"
    /\ LET h == HandleOf(th[c]).h
       IN  interp' = [interp EXCEPT ![h].input = TensorOf(th[c]),
                                    ![h].raced = interp[h].raced \/ interp[h].busy > 0]
    /\ th' = [th EXCEPT ![c] = [Step(@, "predict_" \o @.m) EXCEPT !.pc = "invoke"]]
    /\ UNCHANGED <<cache, attempts, model_output, sources, calls, log>>

\* predict_with_tflite, lines 176-191: the comparison of the tensor's height and
\* width with the declared input shape, the resize when they differ, and
\* interpreter.set_tensor(...).  Without a tensor the comparison raises (lines
\* 202-205: the prediction returns None).
SetTensor(c) ==
    /\ th[c].pc = "set_tensor"
    /\ LET h == HandleOf(th[c]).h
           preprocessed_image == TensorOf(th[c])
           input_shape == interp[h].shape
       IN  IF preprocessed_image = None
           THEN /\ interp' = interp
                /\ th' = [th EXCEPT ![c] = AfterPredict(Step(@, "predict_" \o @.m), None)]
           ELSE /\ interp' = [interp EXCEPT
                         ![h].input =
                             IF <<preprocessed_image.h, preprocessed_image.w>> # input_shape
                             THEN tf_image_resize(preprocessed_image, input_shape)
                             ELSE preprocessed_image,
                         ![h].raced = interp[h].raced \/ interp[h].busy > 0]
                /\ th' = [th EXCEPT ![c] =
                             [Step(@, "predict_" \o @.m) EXCEPT !.pc = "invoke"]]
    /\ UNCHANGED <<cache, attempts, model_output, sources, calls, log>>

\* predict_with_tflite, line 194: interpreter.invoke() is entered and the
\* inference starts
EnterInvoke(c) ==
    /\ th[c].pc = "invoke"
    /\ LET h == HandleOf(th[c]).h
       IN  interp' = [interp EXCEPT ![h].busy = interp[h].busy + 1,
                                    ![h].raced = interp[h].raced \/ interp[h].busy > 0]
    /\ th' = [th EXCEPT ![c].pc = "invoking"]
    /\ UNCHANGED <<cache, attempts, model_output, sources, calls, log>>

\* a faulty variant of Invoke: an exception of interpreter.invoke() leaves
\* predict_with_tflite and reaches the handler of predict_beauty_ensemble
Invoke_RaisesPastBoundary(c) ==
    /\ th[c].pc = "invoking"
    /\ LET h == HandleOf(th[c]).h
           left == interp[h].busy - 1
           stays == interp[h].raced /\ left > 0
           own == model_output[th[c].m][interp[h].input.of]
           outs == IF interp[h].raced THEN RaceOutcomes(own) ELSE {own}
       IN  \E out \in outs :
              IF out = Crash
              THEN /\ interp' = interp
                   /\ th' = Crashed
              ELSE IF out = Raise
              THEN /\ interp' = [interp EXCEPT ![h].busy = left, ![h].raced = stays]
                   /\ th' = [th EXCEPT ![c].pc = "return",
                                       ![c].result.error = ERR_EXCEPTION]
              ELSE /\ interp' = [interp EXCEPT ![h].output = out,
                                               ![h].busy = left, ![h].raced = stays]
                   /\ th' = [th EXCEPT ![c].pc = "get_tensor"]
    /\ UNCHANGED <<cache, attempts, model_output, sources, calls, log>>

\* predict_with_tflite, line 194: interpreter.invoke() returns.  The inference
\* computed the output from the input tensor the interpreter holds, or raised
\* (lines 202-205: the prediction returns None); an inference that raced with
\* another call ends in any of RaceOutcomes.
Invoke(c) ==
    /\ th[c].pc = "invoking"
    /\ LET h == HandleOf(th[c]).h
           left == interp[h].busy - 1
           stays == interp[h].raced /\ left > 0
           own == model_output[th[c].m][interp[h].input.of]
           outs == IF interp[h].raced THEN RaceOutcomes(own) ELSE {own}
       IN  \E out \in outs :
              IF out = Crash
              THEN /\ interp' = interp
                   /\ th' = Crashed
              ELSE IF out = Raise
              THEN /\ interp' = [interp EXCEPT ![h].busy = left, ![h].raced = stays]
                   /\ th' = [th EXCEPT ![c] = AfterPredict(@, None)]
              ELSE /\ interp' = [interp EXCEPT ![h].output = out,
                                               ![h].busy = left, ![h].raced = stays]
                   /\ th' = [th EXCEPT ![c].pc = "get_tensor"]
    /\ UNCHANGED <<cache, attempts, model_output, sources, calls, log>>

\* predict_with_tflite, lines 197-200: float(interpreter.get_tensor(...)[0][0]);
\* while an inference is running in the interpreter the output read is any of
\* the output it holds or another value
GetTensor(c) ==
    /\ th[c].pc = "get_tensor"
    /\ LET h == HandleOf(th[c]).h
           outs == IF interp[h].busy > 0 THEN {interp[h].output, MixedOutput}
                   ELSE {interp[h].output}
       IN  \E out \in outs : th' = [th EXCEPT ![c] = AfterPredict(@, out)]
    /\ UNCHANGED <<cache, interp, attempts, model_output, sources, calls, log>>

\* lines 254-274
FuseScores(c) ==
    /\ th[c].pc = "fuse"
    /\ LET t == th[c]
       IN  th' = [th EXCEPT ![c] =
                     [Step(t, "fuse") EXCEPT
                         !.pc = "return",
                         !.result = Fuse(t.scut_weight, t.mebeauty_weight,
                                         t.scut_score, t.mebeauty_score)]]
    /\ UNCHANGED <<cache, interp, attempts, model_output, sources, calls, log>>

\* a faulty variant of Return: the call drops the cached handles when it ends
Return_DropsHandles(c) ==
    /\ th[c].pc = "return"
    /\ log' = Append(log, [caller |-> c, image |-> th[c].image,
                           scut_weight |-> th[c].arg_scut_weight,
                           mebeauty_weight |-> th[c].arg_mebeauty_weight,
                           scut_model |-> th[c].scut_model,
                           mebeauty_model |-> th[c].mebeauty_model,
                           scut_img |-> th[c].scut_img,
                           mebeauty_img |-> th[c].mebeauty_img,
                           returned |-> [scut |-> th[c].scut_score,
                                         mebeauty |-> th[c].mebeauty_score],
                           result |-> th[c].result, steps |-> th[c].steps])
    /\ th' = [th EXCEPT ![c] = IdleThread]
    /\ cache' = [m \in Models |-> None]
    /\ UNCHANGED <<interp, attempts, model_output, sources, calls>>

\* return result (lines 240, 248, 281)
Return(c) ==
    /\ th[c].pc = "return"
    /\ log' = Append(log, [caller |-> c, image |-> th[c].image,
                           scut_weight |-> th[c].arg_scut_weight,
                           mebeauty_weight |-> th[c].arg_mebeauty_weight,
                           scut_model |-> th[c].scut_model,
                           mebeauty_model |-> th[c].mebeauty_model,
                           scut_img |-> th[c].scut_img,
                           mebeauty_img |-> th[c].mebeauty_img,
                           returned |-> [scut |-> th[c].scut_score,
                                         mebeauty |-> th[c].mebeauty_score],
                           result |-> th[c].result, steps |-> th[c].steps])
    /\ th' = [th EXCEPT ![c] = IdleThread]
    /\ UNCHANGED <<cache, interp, attempts, model_output, sources, calls>>

\* one step of caller c inside predict_beauty_ensemble
Run(c) ==
    \/ Normalize(c)
    \/ Check(c)
    \/ \E ok \in BOOLEAN : Construct(c, ok)
    \/ \E ok \in BOOLEAN : Allocate(c, ok)
    \/ Store(c)
    \/ Read(c)
    \/ Preprocess(c)
    \/ SetTensor(c)
    \/ EnterInvoke(c)
    \/ Invoke(c)
    \/ GetTensor(c)
    \/ FuseScores(c)
    \/ Return(c)

(***************************************************************************)
(* Concurrent callers: threads of one process that call                    *)
(* predict_beauty_ensemble, with the default weights and two images.  The  *)
(* route of main.py (lines 459-494) does not reach the function.           *)
(***************************************************************************)
Half == Dec(1, 2)

\* the model files: SCUT outputs 3 for the face and so for the other image,
\* MEBeauty 4 and mo
OutputsWith(so, mo) ==
    [m \in Models |->
        IF m = "scut"
        THEN [shape |-> DefaultTargetSize, face |-> FloatOfInt(3), other |-> so]
        ELSE [shape |-> DefaultTargetSize, face |-> FloatOfInt(4), other |-> mo]]

\* the inferences on the other image both succeed or both raise
ConcurrentOutputs ==
    {OutputsWith(FloatOfInt(2), FloatOfInt(5)), OutputsWith(Raise, Raise)}

Init == InitWith(ConcurrentOutputs)

\* the first caller passes one image and the others another
ConcurrentImage(c) == IF c = 1 THEN Face ELSE Other

Next ==
    \/ \E c \in Callers : Call(c, ConcurrentImage(c), Half, Half)
    \/ \E c \in Callers : Run(c)

Spec == Init /\ [][Next]_vars

(***************************************************************************)
(* The first call of a process, over a range of weights and of network     *)
(* outputs: the numeric behaviour of the fusion.                           *)
(***************************************************************************)
SeqWeights ==
    {<<Half, Half>>,                   \* the defaults
     <<Dec(3, 10), Dec(7, 10)>>,       \* 0.3 + 0.7 = 1.0
     <<Dec(1, 10), Dec(3, 10)>>,
     <<Dec(1, 10), Dec(2, 10)>>,
     <<FloatOfInt(1), FloatOfInt(3)>>,
     <<FloatOfInt(0), FloatOfInt(2)>>,
     <<FloatOfInt(2), FloatOfInt(-1)>>,
     <<FloatOfInt(0), FloatOfInt(0)>>}

SeqScores ==
    {FloatOfInt(1), Dec(175, 100), FloatOfInt(2), FloatOfInt(3), FloatOfInt(4),
     Dec(55, 10), Raise}

SeqOutputs ==
    {[m \in Models |->
        IF m = "scut" THEN [shape |-> DefaultTargetSize, face |-> s, other |-> s]
        ELSE [shape |-> DefaultTargetSize, face |-> b, other |-> b]] :
        s \in SeqScores, b \in SeqScores}

InitSeq == InitWith(SeqOutputs)

NextSeq ==
    \/ \E image \in {Face, Corrupt}, w \in SeqWeights :
          calls = 0 /\ Call(1, image, w[1], w[2])
    \/ Run(1)

SpecSeq == InitSeq /\ [][NextSeq]_vars

(***************************************************************************)
(* One caller, call after call: the cache across sequential calls.         *)
(***************************************************************************)
CallsWeights == {<<Half, Half>>, <<FZero, FZero>>}

CallsOutputs ==
    {OutputsWith(so, mo) : so \in {FloatOfInt(2), Raise}, mo \in {FloatOfInt(5), Raise}}

InitCalls == InitWith(CallsOutputs)

NextCalls ==
    \/ \E image \in {Face, Other, Corrupt}, w \in CallsWeights :
          Call(1, image, w[1], w[2])
    \/ Run(1)

SpecCalls == InitCalls /\ [][NextCalls]_vars

(***************************************************************************)
(* One caller, call after call, over images of several modes and sizes and *)
(* over model files that declare several input shapes: what preprocessing  *)
(* produces and what the interpreters are given.                           *)
(***************************************************************************)
\* the input shapes <<height, width>> the model files may declare
ScutShapes == {DefaultTargetSize, <<299, 299>>}
MebeautyShapes == {DefaultTargetSize, <<192, 256>>}

ImageOutputs ==
    {[m \in Models |->
        LET score == IF m = "scut" THEN FloatOfInt(3) ELSE FloatOfInt(4)
        IN  [shape |-> IF m = "scut" THEN ss ELSE ms,
             face |-> score, other |-> score, translucent |-> score,
             transparent |-> score, opaque |-> score, samesize |-> score,
             grey |-> score]] :
        ss \in ScutShapes, ms \in MebeautyShapes}

InitImages == InitWith(ImageOutputs)

NextImages ==
    \/ \E image \in ImageInputs : Call(1, image, Half, Half)
    \/ Run(1)

SpecImages == InitImages /\ [][NextImages]_vars

(***************************************************************************)
(* Notions the properties below share.                                     *)
(***************************************************************************)
\* the interpreters load_tflite_model returned for model m
LoadedFor(m) == {i \in 1..Len(interp) : interp[i].model = m /\ interp[i].allocated}

\* the handle caller c got from the getter of model m
HandleGot(c, m) == IF m = "scut" THEN th[c].scut_model ELSE th[c].mebeauty_model

\* caller c is about to return from a call in which both handles were acquired
\* and both tensors prepared
Predicted(c) ==
    /\ th[c].pc = "return"
    /\ th[c].scut_model # None /\ th[c].mebeauty_model # None
    /\ th[c].scut_img # None /\ th[c].mebeauty_img # None

\* what the networks compute for the image of caller c
ScutOut(c) == model_output["scut"][th[c].image.id]
MebeautyOut(c) == model_output["mebeauty"][th[c].image.id]

\* both calls of predict_with_tflite returned a score to caller c
BothScored(c) == Predicted(c) /\ th[c].scut_score # None /\ th[c].mebeauty_score # None

(***************************************************************************)
(* C1.  When several callers make the first request for a model while its  *)
(* cache slot is empty, one load is performed for that model and all the   *)
(* callers obtain the same handle, in every interleaving: at no time have  *)
(* two interpreters been loaded for one model, and no two callers hold     *)
(* different handles of one model.                                         *)
(***************************************************************************)
C1_SingleLoad ==
    \A m \in Models :
        /\ Cardinality(LoadedFor(m)) <= 1
        /\ \A c, d \in Callers :
              HandleGot(c, m) # None /\ HandleGot(d, m) # None
                  => HandleGot(c, m) = HandleGot(d, m)

(***************************************************************************)
(* C2.  When both handles load and both tensors are prepared, and one      *)
(* model's prediction fails while the other returns S, the result has      *)
(* ensemble_score = S (no weighting), the surviving model's score S, the   *)
(* failed model's score absent, and the diagnostic that names the failed   *)
(* model.                                                                  *)
(***************************************************************************)
C2_SingleModelFallback ==
    \A c \in Callers :
        Predicted(c) =>
            /\ (ScutOut(c) = Raise /\ MebeautyOut(c) # Raise) =>
                  th[c].result = [ensemble_score |-> MebeautyOut(c),
                                  scut_score |-> None,
                                  mebeauty_score |-> MebeautyOut(c),
                                  error |-> ERR_SCUT_FAILED]
            /\ (MebeautyOut(c) = Raise /\ ScutOut(c) # Raise) =>
                  th[c].result = [ensemble_score |-> ScutOut(c),
                                  scut_score |-> ScutOut(c),
                                  mebeauty_score |-> None,
                                  error |-> ERR_MEBEAUTY_FAILED]

\* the scenario of the specification: weights (0.3, 0.7), SCUT scores 2.0,
\* MEBeauty fails; the fused score is 2.0 and the diagnostic names MEBeauty
C2_Witness ==
    /\ Predicted(1)
    /\ th[1].arg_scut_weight = Dec(3, 10) /\ th[1].arg_mebeauty_weight = Dec(7, 10)
    /\ ScutOut(1) = FloatOfInt(2) /\ MebeautyOut(1) = Raise
    /\ th[1].result.ensemble_score = FloatOfInt(2)
    /\ th[1].result.error = ERR_MEBEAUTY_FAILED

(***************************************************************************)
(* C3.  When both models' predictions fail the call still returns, with    *)
(* ensemble_score and both individual scores absent and the diagnostic     *)
(* that both model predictions failed.                                     *)
(***************************************************************************)
C3_TotalFailure ==
    \A c \in Callers :
        \* once both predictions have failed the call is at its fusion step or
        \* at its return: no exception took it elsewhere
        /\ (/\ th[c].pc \notin {"idle", "normalize"}
            /\ th[c].scut_img # None /\ th[c].mebeauty_img # None
            /\ "predict_mebeauty" \in {th[c].steps[i] : i \in DOMAIN th[c].steps}
            /\ th[c].pc \notin {"invoke", "invoking", "get_tensor"}
            /\ ScutOut(c) = Raise /\ MebeautyOut(c) = Raise)
               => th[c].pc \in {"fuse", "return"}
        /\ (Predicted(c) /\ ScutOut(c) = Raise /\ MebeautyOut(c) = Raise)
               => th[c].result = [EmptyResult EXCEPT !.error = ERR_BOTH_FAILED]

C3_Witness ==
    /\ Predicted(1) /\ ScutOut(1) = Raise /\ MebeautyOut(1) = Raise
    /\ th[1].result.ensemble_score = None
    /\ th[1].result.error = ERR_BOTH_FAILED

(***************************************************************************)
(* C4.  When both models produce a score, ensemble_score is                *)
(* w_scut * scut_score + w_mebeauty * mebeauty_score, the weights being    *)
(* the input weights divided by their sum, or the input weights unchanged  *)
(* when they sum to 1; weights (0.5, 0.5) with scores 3.0 and 4.0 give 3.5.*)
(***************************************************************************)
C4_WeightedSum ==
    \A c \in Callers :
        BothScored(c) =>
            LET a == th[c].arg_scut_weight
                b == th[c].arg_mebeauty_weight
                sum == FloatAdd(a, b)
                w_scut == IF sum = One THEN a ELSE FloatDiv(a, sum)
                w_mebeauty == IF sum = One THEN b ELSE FloatDiv(b, sum)
            IN  /\ th[c].result.ensemble_score =
                      FloatAdd(FloatMul(w_scut, ScutOut(c)),
                               FloatMul(w_mebeauty, MebeautyOut(c)))
                /\ (a = Half /\ b = Half /\ ScutOut(c) = FloatOfInt(3)
                       /\ MebeautyOut(c) = FloatOfInt(4))
                      => th[c].result.ensemble_score = Dec(35, 10)

C4_Witness ==
    /\ BothScored(1)
    /\ th[1].arg_scut_weight = Half /\ th[1].arg_mebeauty_weight = Half
    /\ ScutOut(1) = FloatOfInt(3) /\ MebeautyOut(1) = FloatOfInt(4)
    /\ th[1].result.ensemble_score = Dec(35, 10)
    /\ th[1].result.error = None

(***************************************************************************)
(* Arithmetic the statements about rounding need.                          *)
(***************************************************************************)
FloatSub(a, b) == FloatAdd(a, FloatNeg(b))
FloatAbs(a) == IF a.m = <<>> THEN a ELSE [a EXCEPT !.s = 1]
FloatMax(a, b) == IF FloatLe(a, b) THEN b ELSE a
FloatMin(a, b) == IF FloatLe(a, b) THEN a ELSE b

\* 2^-49: sixteen units in the last place of a float in [1, 2)
RoundingSlack == FloatDiv(One, FRound(1, BShl(<<1>>, 49), 0))

\* |a - b| <= 2^-49 * scale
CloseTo(a, b, scale) ==
    FloatLe(FloatAbs(FloatSub(a, b)), FloatMul(RoundingSlack, scale))

Positive(a) == FloatSign(a) > 0

\* what a call with weights (a, b) returns as ensemble_score when the models
\* score s and m
FusedScore(a, b, s, m) ==
    LET w == NormalizeWeights(a, b)
    IN  Fuse(w.scut_weight, w.mebeauty_weight, s, m).ensemble_score

(***************************************************************************)
(* C5 as claimed.  For positive weights (a, b) and fixed scores, the call  *)
(* with (a, b) and the call with (a/(a+b), b/(a+b)) return the same        *)
(* ensemble_score.                                                         *)
(***************************************************************************)
C5_ScaleInvariantExactly ==
    \A c \in Callers :
        (/\ BothScored(c)
         /\ Positive(th[c].arg_scut_weight) /\ Positive(th[c].arg_mebeauty_weight))
            => LET a == th[c].arg_scut_weight
                   b == th[c].arg_mebeauty_weight
                   sum == FloatAdd(a, b)
               IN  th[c].result.ensemble_score =
                       FusedScore(FloatDiv(a, sum), FloatDiv(b, sum),
                                  ScutOut(c), MebeautyOut(c))

(***************************************************************************)
(* C5 as amended.  For positive weights (a, b) and fixed scores, with no   *)
(* overflow or underflow in the arithmetic, the call with (a, b) and the   *)
(* call with (a/(a+b), b/(a+b)) return ensemble scores that agree up to    *)
(* floating-point rounding: they differ by at most 2^-49 times the larger  *)
(* score magnitude, and they are identical whenever the weights the first  *)
(* call fuses with sum to exactly 1.0.                                     *)
(***************************************************************************)
C5_ScaleInvariantUpToRounding ==
    \A c \in Callers :
        (/\ BothScored(c)
         /\ Positive(th[c].arg_scut_weight) /\ Positive(th[c].arg_mebeauty_weight))
            => LET a == th[c].arg_scut_weight
                   b == th[c].arg_mebeauty_weight
                   sum == FloatAdd(a, b)
                   again == FusedScore(FloatDiv(a, sum), FloatDiv(b, sum),
                                       ScutOut(c), MebeautyOut(c))
                   fused == th[c].result.ensemble_score
               IN  /\ CloseTo(fused, again,
                              FloatMax(FloatAbs(ScutOut(c)), FloatAbs(MebeautyOut(c))))
                   /\ FloatAdd(th[c].scut_weight, th[c].mebeauty_weight) = One
                          => fused = again

\* weights (1, 3) become (0.25, 0.75): with scores 3.0 and 4.0 both calls
\* return 3.75
C5_Witness ==
    /\ BothScored(1)
    /\ th[1].arg_scut_weight = FloatOfInt(1) /\ th[1].arg_mebeauty_weight = FloatOfInt(3)
    /\ th[1].scut_weight = Dec(1, 4) /\ th[1].mebeauty_weight = Dec(3, 4)
    /\ ScutOut(1) = FloatOfInt(3) /\ MebeautyOut(1) = FloatOfInt(4)
    /\ th[1].result.ensemble_score = Dec(375, 100)
    /\ FusedScore(Dec(1, 4), Dec(3, 4), ScutOut(1), MebeautyOut(1)) = Dec(375, 100)

(***************************************************************************)
(* C6 as claimed.  Whenever both models produce a score, whatever weights  *)
(* the caller passed, ensemble_score lies between the smaller and the      *)
(* larger of the two scores, inclusive.                                    *)
(***************************************************************************)
C6_BetweenScores ==
    \A c \in Callers :
        BothScored(c) =>
            /\ FloatLe(FloatMin(ScutOut(c), MebeautyOut(c)), th[c].result.ensemble_score)
            /\ FloatLe(th[c].result.ensemble_score, FloatMax(ScutOut(c), MebeautyOut(c)))

(***************************************************************************)
(* C6 as amended.  Whenever both models produce a score and neither weight *)
(* the caller passed is negative, with no overflow or underflow in the     *)
(* arithmetic, ensemble_score lies between the smaller and the larger of   *)
(* the two scores up to floating-point rounding: it is at most 2^-49 times *)
(* the larger score magnitude outside that interval.                       *)
(***************************************************************************)
C6_BetweenScoresUpToRounding ==
    \A c \in Callers :
        (/\ BothScored(c)
         /\ FloatSign(th[c].arg_scut_weight) >= 0
         /\ FloatSign(th[c].arg_mebeauty_weight) >= 0)
            => LET lo == FloatMin(ScutOut(c), MebeautyOut(c))
                   hi == FloatMax(ScutOut(c), MebeautyOut(c))
                   slack == FloatMul(RoundingSlack,
                                     FloatMax(FloatAbs(lo), FloatAbs(hi)))
               IN  /\ FloatLe(FloatSub(lo, slack), th[c].result.ensemble_score)
                   /\ FloatLe(th[c].result.ensemble_score, FloatAdd(hi, slack))

\* weights (0.3, 0.7), scores 2.0 and 4.0: the fused score is strictly between
C6_Witness ==
    /\ BothScored(1)
    /\ th[1].arg_scut_weight = Dec(3, 10) /\ th[1].arg_mebeauty_weight = Dec(7, 10)
    /\ ScutOut(1) = FloatOfInt(2) /\ MebeautyOut(1) = FloatOfInt(4)
    /\ FloatCmp(FloatOfInt(2), th[1].result.ensemble_score) < 0
    /\ FloatCmp(th[1].result.ensemble_score, FloatOfInt(4)) < 0

(***************************************************************************)
(* C7.  Whenever a call returns a result with ensemble_score present       *)
(* (fusion of both models or single-model fallback), that score lies       *)
(* within the output scale, 1.0 to 5.0.                                    *)
(***************************************************************************)
C7_WithinScale ==
    \A c \in Callers :
        (th[c].pc = "return" /\ th[c].result.ensemble_score # None)
            => /\ FloatLe(FloatOfInt(1), th[c].result.ensemble_score)
               /\ FloatLe(th[c].result.ensemble_score, FloatOfInt(5))

(***************************************************************************)
(* C8.  If the getter of either model returns no handle, the call fails as *)
(* a whole: it goes straight to its return with ensemble_score and both    *)
(* individual scores absent and the model-load diagnostic, and it has      *)
(* preprocessed nothing and invoked no model, not even the one whose       *)
(* handle did load.                                                        *)
(***************************************************************************)
StepsOf(c) == {th[c].steps[i] : i \in DOMAIN th[c].steps}

\* both getters have returned to caller c
GettersReturned(c) ==
    /\ "check_mebeauty" \in StepsOf(c)
    /\ th[c].pc \notin {"check", "construct", "allocate", "store", "read"}

C8_LoadFailureAborts ==
    \A c \in Callers :
        (GettersReturned(c) /\ (th[c].scut_model = None \/ th[c].mebeauty_model = None))
            => /\ th[c].pc = "return"
               /\ th[c].result = [EmptyResult EXCEPT !.error = ERR_LOAD]
               /\ th[c].scut_img = None /\ th[c].mebeauty_img = None
               /\ StepsOf(c) \cap {"preprocess", "predict_scut", "predict_mebeauty",
                                   "fuse"} = {}
               /\ \A i \in 1..Len(interp) :
                      interp[i].input = None /\ interp[i].output = None

\* the SCUT handle loaded, the MEBeauty load failed
C8_Witness ==
    /\ th[1].pc = "return"
    /\ th[1].scut_model # None /\ th[1].mebeauty_model = None
    /\ LoadedFor("scut") # {}
    /\ th[1].result.error = ERR_LOAD

(***************************************************************************)
(* C9.  In a sequence of calls, once a load for a model has succeeded,     *)
(* every later call gets that same handle from the getter and no load is   *)
(* attempted again: at most one load per model ever succeeds.              *)
(***************************************************************************)
\* the calls that returned after the getter of model m gave them no handle
CallsWithout(m) ==
    {k \in DOMAIN log :
        /\ "check_" \o m \in {log[k].steps[i] : i \in DOMAIN log[k].steps}
        /\ (IF m = "scut" THEN log[k].scut_model ELSE log[k].mebeauty_model) = None}

\* the handles the getter of model m has given out
HandlesGiven(m) ==
    ({IF m = "scut" THEN log[k].scut_model ELSE log[k].mebeauty_model :
         k \in DOMAIN log}
     \cup {HandleGot(c, m) : c \in Callers}) \ {None}

C9_LoadedOnce ==
    \A m \in Models :
        /\ Cardinality(LoadedFor(m)) <= 1
        /\ HandlesGiven(m) \subseteq {[h |-> i] : i \in LoadedFor(m)}
        /\ cache[m] # None => HandlesGiven(m) \subseteq {cache[m]}
        /\ (\A c \in Callers : th[c].pc = "idle")
               => attempts[m] <= Cardinality(CallsWithout(m)) + 1

\* two calls returned with the same SCUT handle, loaded by the first
C9_Witness ==
    /\ Len(log) = 2
    /\ log[1].scut_model # None /\ log[2].scut_model = log[1].scut_model
    /\ attempts["scut"] = 1
    /\ log[2].result.ensemble_score # None

(***************************************************************************)
(* C10.  A failed load is not remembered: it leaves the cache slot empty,  *)
(* every later call that finds the slot empty attempts the load again, and *)
(* an attempt that succeeds fills the slot, so that a call reports the     *)
(* load failure only when a load failed during that very call.             *)
(***************************************************************************)
C10_FailureNotCached ==
    \A m \in Models :
        /\ cache[m] \in {None} \cup {[h |-> i] : i \in LoadedFor(m)}
        /\ (\A c \in Callers : th[c].pc = "idle") =>
              /\ attempts[m] >=
                     Cardinality(CallsWithout(m)) + (IF cache[m] = None THEN 0 ELSE 1)
              /\ LoadedFor(m) # {} => cache[m] # None
              /\ \A k \in DOMAIN log :
                     log[k].result.error = ERR_LOAD
                         => k \in CallsWithout("scut") \cup CallsWithout("mebeauty")

\* the first call failed on a load that failed; the second call loaded the
\* same model and returned a score
C10_Witness ==
    /\ Len(log) = 2
    /\ log[1].result.error = ERR_LOAD /\ log[1].scut_model = None
    /\ log[2].scut_model # None /\ log[2].mebeauty_model # None
    /\ log[2].result.ensemble_score # None
    /\ attempts["scut"] = 2

(***************************************************************************)
(* C11.  When both weights are zero, the call is rejected before any model *)
(* work: no load is attempted, the cache slots and the interpreters stay   *)
(* as they were, nothing is preprocessed or invoked, and the result has    *)
(* ensemble_score absent and a diagnostic.                                 *)
(***************************************************************************)
ZeroWeights(c) ==
    /\ th[c].arg_scut_weight = FZero /\ th[c].arg_mebeauty_weight = FZero

C11_ZeroWeightsRejected ==
    /\ [](\A c \in Callers :
            (th[c].pc \notin {"idle", "normalize"} /\ ZeroWeights(c))
                => /\ th[c].pc = "return"
                   /\ StepsOf(c) = {"normalize"}
                   /\ th[c].result = [EmptyResult EXCEPT !.error = ERR_EXCEPTION]
                   /\ th[c].scut_model = None /\ th[c].mebeauty_model = None
                   /\ th[c].scut_img = None /\ th[c].mebeauty_img = None)
    /\ [][\A c \in Callers :
            (th[c].pc # "idle" /\ ZeroWeights(c))
                => UNCHANGED <<cache, interp, attempts>>]_vars

\* after a call that loaded both models, a call with weights (0, 0) is about to
\* return the diagnostic of the division
C11_Witness ==
    /\ Len(log) = 1 /\ log[1].result.ensemble_score # None
    /\ cache["scut"] # None /\ cache["mebeauty"] # None
    /\ th[1].pc = "return" /\ ZeroWeights(1)
    /\ th[1].result.error = ERR_EXCEPTION

(***************************************************************************)
(* The command-line boundary, test_ensemble.py.                            *)
(***************************************************************************)
\* Python truth value of result.get("error")
Truthy(v) == IF v = None THEN FALSE ELSE v.str # ""

\* main, lines 46-54: the exit status for the result of the call of line 37
main(result) == IF Truthy(result.error) THEN 1 ELSE 0

(***************************************************************************)
(* C12.  The command line exits with status 0 whenever the result carries  *)
(* a fused score, the degraded single-model case included, and with a      *)
(* failure status only when the fused score is absent.                     *)
(***************************************************************************)
C12_ExitStatus ==
    \A c \in Callers :
        th[c].pc = "return"
            => (main(th[c].result) = 0 <=> th[c].result.ensemble_score # None)

(***************************************************************************)
(* C13.  In every result returned, after any sequence of calls and any     *)
(* combination of load, preprocessing and prediction outcomes,             *)
(* ensemble_score is absent if and only if scut_score and mebeauty_score   *)
(* are both absent, and a model's score is present exactly when the        *)
(* prediction step of that model ran in the call and returned a value.     *)
(***************************************************************************)
\* the prediction of model m ran in the call with trace steps, and
\* predict_with_tflite returned a value: returned holds what the two calls of
\* predict_with_tflite gave the coordinator (lines 251-252)
PredictionReturned(m, steps, returned) ==
    /\ "predict_" \o m \in {steps[i] : i \in DOMAIN steps}
    /\ returned[m] # None

ScoresConsistent(result, steps, returned) ==
    /\ result.ensemble_score = None
          <=> (result.scut_score = None /\ result.mebeauty_score = None)
    /\ result.scut_score # None <=> PredictionReturned("scut", steps, returned)
    /\ result.mebeauty_score # None <=> PredictionReturned("mebeauty", steps, returned)

C13_ScoresConsistent ==
    /\ \A k \in DOMAIN log :
          ScoresConsistent(log[k].result, log[k].steps, log[k].returned)
    /\ \A c \in Callers :
          th[c].pc = "return"
              => ScoresConsistent(th[c].result, th[c].steps,
                                  [scut |-> th[c].scut_score,
                                   mebeauty |-> th[c].mebeauty_score])

\* a first call lost the MEBeauty prediction and kept the SCUT score; a second
\* call failed to preprocess and returned no score at all
C13_Witness ==
    /\ Len(log) = 2
    /\ log[1].result.scut_score # None /\ log[1].result.mebeauty_score = None
    /\ log[1].result.ensemble_score = log[1].result.scut_score
    /\ log[2].image = Corrupt /\ log[2].result.ensemble_score = None

(***************************************************************************)
(* The three outcomes of a call, read off the returned record.             *)
(***************************************************************************)
ResultFields == {"ensemble_score", "scut_score", "mebeauty_score", "error"}

FullySucceeded(result) ==
    /\ result.ensemble_score # None
    /\ result.scut_score # None /\ result.mebeauty_score # None

Degraded(result) ==
    /\ result.ensemble_score # None
    /\ (result.scut_score = None) # (result.mebeauty_score = None)

FailedEntirely(result) == result.ensemble_score = None

\* the record has the four fields and shows exactly one of the three outcomes
Structured(result) ==
    /\ DOMAIN result = ResultFields
    /\ \/ FullySucceeded(result) /\ ~Degraded(result) /\ ~FailedEntirely(result)
       \/ ~FullySucceeded(result) /\ Degraded(result) /\ ~FailedEntirely(result)
       \/ ~FullySucceeded(result) /\ ~Degraded(result) /\ FailedEntirely(result)

(***************************************************************************)
(* C14 as claimed.  Every call returns a record with the four fields       *)
(* ensemble_score, scut_score, mebeauty_score and error that shows one of  *)
(* the outcomes fully succeeded, degraded to a single model, failed        *)
(* entirely, and in each of the three outcomes the record carries a        *)
(* diagnostic string.                                                      *)
(***************************************************************************)
C14_DiagnosticInEveryOutcome ==
    \A c \in Callers :
        th[c].pc = "return"
            => /\ Structured(th[c].result)
               /\ Truthy(th[c].result.error)

(***************************************************************************)
(* C14 as amended.  Every call returns a record with the four fields that  *)
(* shows one of the three outcomes; the record carries a diagnostic string *)
(* in the degraded and in the failed outcome, naming what failed, and its  *)
(* error field is absent exactly when the call fully succeeded.            *)
(***************************************************************************)
C14_DiagnosticUnlessSucceeded ==
    \A c \in Callers :
        th[c].pc = "return"
            => /\ Structured(th[c].result)
               /\ FullySucceeded(th[c].result) <=> th[c].result.error = None
               /\ Degraded(th[c].result)
                     => th[c].result.error =
                            IF th[c].result.scut_score = None
                            THEN ERR_SCUT_FAILED ELSE ERR_MEBEAUTY_FAILED
               /\ FailedEntirely(th[c].result)
                     => th[c].result.error \in
                            {ERR_LOAD, ERR_PREPROCESS, ERR_BOTH_FAILED, ERR_EXCEPTION}

\* a call is about to return a fused score of both models, with no diagnostic
C14_Witness ==
    /\ th[1].pc = "return"
    /\ FullySucceeded(th[1].result)
    /\ th[1].result.error = None
    /\ "fuse" \in StepsOf(1)

(***************************************************************************)
(* C15.  If preprocessing yields no tensor for either model, the call      *)
(* surfaces the failure: it goes straight to its return with the           *)
(* preprocessing diagnostic, ensemble_score and both individual scores     *)
(* absent, and no model is invoked, with a substitute tensor or otherwise: *)
(* no interpreter receives an input during the call.                       *)
(***************************************************************************)
PreprocessFailed(c) ==
    /\ "preprocess" \in StepsOf(c)
    /\ (preprocess_for_scut(th[c].image, DefaultTargetSize) = None
        \/ preprocess_for_mebeauty(th[c].image, DefaultTargetSize) = None)

C15_PreprocessFailureSurfaced ==
    \A c \in Callers :
        PreprocessFailed(c)
            => /\ th[c].pc = "return"
               /\ th[c].result = [EmptyResult EXCEPT !.error = ERR_PREPROCESS]
               /\ StepsOf(c) \cap {"predict_scut", "predict_mebeauty", "fuse"} = {}
               /\ \A i \in 1..Len(interp) :
                      interp[i].input = None /\ interp[i].output = None

\* both models loaded, the image could not be decoded
C15_Witness ==
    /\ th[1].pc = "return" /\ th[1].image = Corrupt
    /\ th[1].scut_model # None /\ th[1].mebeauty_model # None
    /\ th[1].scut_img = None
    /\ th[1].result.error = ERR_PREPROCESS

(***************************************************************************)
(* C16.  Repeated calls in a fixed environment.  The network outputs are   *)
(* fixed per image by model_output and preprocessing by the image; the     *)
(* load outcomes are fixed when, for each model, the loads so far all      *)
(* succeeded or all failed.                                                *)
(***************************************************************************)
\* the interpreters of model m that load_tflite_model returned or is still
\* working on
LoadsStarted(m) ==
    {i \in 1..Len(interp) :
        /\ interp[i].model = m
        /\ interp[i].allocated \/ \E c \in Callers : th[c].loaded = [h |-> i]}

EnvFixed ==
    \A m \in Models :
        LoadsStarted(m) = {} \/ Cardinality(LoadsStarted(m)) = attempts[m]

\* the calls k and l of the log had the same image and weights
SameCall(k, l) ==
    /\ log[k].image = log[l].image
    /\ log[k].scut_weight = log[l].scut_weight
    /\ log[k].mebeauty_weight = log[l].mebeauty_weight

\* caller c is inside a call that repeats the image and weights of the call
\* that returned last
Repeating(c) ==
    /\ th[c].pc # "idle" /\ Len(log) >= 1
    /\ log[Len(log)].image = th[c].image
    /\ log[Len(log)].scut_weight = th[c].arg_scut_weight
    /\ log[Len(log)].mebeauty_weight = th[c].arg_mebeauty_weight

EqualResults ==
    EnvFixed => \A k, l \in DOMAIN log : SameCall(k, l) => log[k].result = log[l].result

\* what the interpreters hold, apart from the count of the inferences that are
\* running in them
Held(interps) ==
    [i \in DOMAIN interps |->
        [model |-> interps[i].model, allocated |-> interps[i].allocated,
         shape |-> interps[i].shape, input |-> interps[i].input,
         output |-> interps[i].output]]

\* no step of a repeating call changes the cache or what an interpreter holds
RepeatChangesNothing ==
    (EnvFixed' /\ \E c \in Callers : Repeating(c))
        => cache' = cache /\ Held(interp') = Held(interp)

\* a step changes a cache slot only by filling an empty one with a loaded handle
CacheOnlyFilled ==
    \A m \in Models :
        cache'[m] # cache[m]
            => cache[m] = None /\ cache'[m] \in {[h |-> i] : i \in LoadedFor(m)}

\* a step leaves the tensors every interpreter holds as they were
BuffersUntouched ==
    \A i \in 1..Len(interp) :
        interp'[i].input = interp[i].input /\ interp'[i].output = interp[i].output

\* a step changes the tensors of an interpreter only as the set_tensor or the
\* invoke of a call that holds its handle
BuffersOnlyByPrediction ==
    \A i \in 1..Len(interp) :
        (interp'[i].input # interp[i].input \/ interp'[i].output # interp[i].output)
            => \E c \in Callers :
                  /\ th[c].pc \in {"set_tensor", "invoking"}
                  /\ HandleOf(th[c]) = [h |-> i]

(***************************************************************************)
(* C16 as claimed.  In a fixed environment two sequential calls with the   *)
(* same image and weights return equal records, the second call changes no *)
(* shared state, and the only state any call changes is a cache slot, by   *)
(* filling an empty one with a loaded handle.                              *)
(***************************************************************************)
C16_OnlyCacheChanges ==
    /\ []EqualResults
    /\ [][RepeatChangesNothing]_vars
    /\ [][CacheOnlyFilled /\ BuffersUntouched]_vars

(***************************************************************************)
(* C16 as amended.  In a fixed environment two sequential calls with the   *)
(* same image and weights return equal records, and the second call leaves *)
(* the cache slots and the interpreters as the first left them; the shared *)
(* state a call changes is a cache slot, by filling an empty one with a    *)
(* loaded handle, and the input and output tensors of the cached           *)
(* interpreters it predicts with.                                          *)
(***************************************************************************)
C16_Idempotent ==
    /\ []EqualResults
    /\ [][RepeatChangesNothing]_vars
    /\ [][CacheOnlyFilled /\ BuffersOnlyByPrediction]_vars

\* two calls with the same image returned the same fused score, and each model
\* was loaded once
C16_Witness ==
    /\ Len(log) = 2 /\ SameCall(1, 2) /\ EnvFixed
    /\ log[1].image = Face
    /\ log[1].result.ensemble_score # None
    /\ log[2].result = log[1].result
    /\ \A m \in Models : attempts[m] = 1

(***************************************************************************)
(* C17.  When calls with different images run concurrently on the shared   *)
(* interpreter of a model, each call's score for a model is that model's   *)
(* output for the call's own tensor, in every interleaving of the          *)
(* set_tensor, invoke and get_tensor steps.                                *)
(***************************************************************************)
\* what predict_with_tflite returns for the network output out
ScoreOf(out) == IF out = Raise THEN None ELSE out

C17_OwnTensorScored ==
    \A c \in Callers :
        Predicted(c)
            => /\ th[c].result.scut_score = ScoreOf(ScutOut(c))
               /\ th[c].result.mebeauty_score = ScoreOf(MebeautyOut(c))

(***************************************************************************)
(* C18.  Once a handle is stored in a cache slot, the slot is never        *)
(* emptied and never overwritten with another handle, in every             *)
(* interleaving of concurrent callers.                                     *)
(***************************************************************************)
C18_SlotWrittenOnce ==
    [][\A m \in Models : cache[m] # None => cache'[m] = cache[m]]_vars

(***************************************************************************)
(* C19.  No caller obtains a partially initialised handle: a handle is in  *)
(* a cache slot, or in a caller's hands, only after load_tflite_model has  *)
(* constructed the interpreter and allocated its tensors; while a load is  *)
(* in flight the slot holds nothing or a fully loaded handle.              *)
(***************************************************************************)
FullyLoaded(handle, m) ==
    /\ handle.h \in 1..Len(interp)
    /\ interp[handle.h].model = m
    /\ interp[handle.h].allocated

C19_NoPartialHandle ==
    \A m \in Models :
        /\ cache[m] # None => FullyLoaded(cache[m], m)
        /\ \A c \in Callers :
              /\ HandleGot(c, m) # None => FullyLoaded(HandleGot(c, m), m)
              /\ (th[c].pc = "allocate" /\ th[c].m = m) => cache[m] # th[c].loaded

\* caller 1 is allocating the tensors of an interpreter while caller 2 reads
\* the slot of the same model
C19_Witness ==
    /\ th[1].pc = "allocate" /\ th[1].m = "scut"
    /\ ~interp[th[1].loaded.h].allocated
    /\ th[2].pc = "read" /\ th[2].m = "scut"

(***************************************************************************)
(* C20.  Once both handles are loaded and both tensors prepared, the call  *)
(* invokes both models: a model whose normalized weight is 0 is still      *)
(* queried and its score recorded, and a failed SCUT prediction does not   *)
(* keep the MEBeauty prediction from running and from being recorded.      *)
(***************************************************************************)
\* caller c has both handles and both tensors and is past the predictions
PredictionsDone(c) ==
    /\ th[c].pc \in {"fuse", "return"}
    /\ th[c].scut_model # None /\ th[c].mebeauty_model # None
    /\ th[c].scut_img # None /\ th[c].mebeauty_img # None

C20_BothModelsQueried ==
    \A c \in Callers :
        /\ PredictionsDone(c)
              => /\ {"predict_scut", "predict_mebeauty"} \subseteq StepsOf(c)
                 /\ th[c].scut_score = ScoreOf(ScutOut(c))
                 /\ th[c].mebeauty_score = ScoreOf(MebeautyOut(c))
        /\ Predicted(c)
              => /\ th[c].result.scut_score = ScoreOf(ScutOut(c))
                 /\ th[c].result.mebeauty_score = ScoreOf(MebeautyOut(c))

\* weights (0, 2) normalize to (0, 1): the SCUT model, of weight 0, was queried
\* and scored 3.0, and the fused score is the MEBeauty score
C20_Witness ==
    /\ Predicted(1)
    /\ th[1].scut_weight = FZero /\ th[1].mebeauty_weight = One
    /\ "predict_scut" \in StepsOf(1)
    /\ th[1].result.scut_score = FloatOfInt(3)
    /\ th[1].result.mebeauty_score = FloatOfInt(4)
    /\ th[1].result.ensemble_score = FloatOfInt(4)

(***************************************************************************)
(* C21.  Within a call the fusion runs only after the outcomes of both     *)
(* models' predictions have been collected: when the fusion is about to    *)
(* run or has run, both prediction steps are in the call's past, in the    *)
(* order SCUT, MEBeauty, fusion, and the scores the fusion reads are the   *)
(* final outcomes of the two predictions.                                  *)
(***************************************************************************)
\* the positions of step name in the trace of caller c
PositionsOf(c, name) == {i \in DOMAIN th[c].steps : th[c].steps[i] = name}

\* every occurrence of step a in the trace of caller c precedes every
\* occurrence of step b
Precedes(c, a, b) ==
    \A i \in PositionsOf(c, a), j \in PositionsOf(c, b) : i < j

C21_FusionAfterBothPredictions ==
    \A c \in Callers :
        (th[c].pc = "fuse" \/ "fuse" \in StepsOf(c) \/ th[c].result.ensemble_score # None)
            => /\ PositionsOf(c, "predict_scut") # {}
               /\ PositionsOf(c, "predict_mebeauty") # {}
               /\ Precedes(c, "predict_scut", "predict_mebeauty")
               /\ Precedes(c, "predict_mebeauty", "fuse")
               /\ th[c].scut_score = ScoreOf(ScutOut(c))
               /\ th[c].mebeauty_score = ScoreOf(MebeautyOut(c))

\* the fusion is about to run on the two collected scores 3.0 and 4.0
C21_Witness ==
    /\ th[1].pc = "fuse"
    /\ th[1].scut_score = FloatOfInt(3) /\ th[1].mebeauty_score = FloatOfInt(4)
    /\ th[1].result.ensemble_score = None

(***************************************************************************)
(* The weights a fusion used, against the weights the caller passed.       *)
(***************************************************************************)
\* caller c computed the weighted fusion of two scores
Fused(c) == BothScored(c) /\ "fuse" \in StepsOf(c)

\* input weights whose sum differs from 1.0 are each divided by that sum, and
\* input weights that sum to 1.0 are used unchanged
DividedBySum(c) ==
    LET a == th[c].arg_scut_weight
        b == th[c].arg_mebeauty_weight
        sum == FloatAdd(a, b)
    IN  IF sum = One
        THEN th[c].scut_weight = a /\ th[c].mebeauty_weight = b
        ELSE /\ th[c].scut_weight = FloatDiv(a, sum)
             /\ th[c].mebeauty_weight = FloatDiv(b, sum)

(***************************************************************************)
(* C22 as claimed.  Whenever a call computes the weighted fusion, the two  *)
(* weights it uses sum to 1.0: input weights whose sum differs from 1.0    *)
(* are each divided by the sum, and input weights that sum to 1.0 are used *)
(* unchanged.                                                              *)
(***************************************************************************)
C22_WeightsSumToOne ==
    \A c \in Callers :
        Fused(c) => /\ FloatAdd(th[c].scut_weight, th[c].mebeauty_weight) = One
                    /\ DividedBySum(c)

(***************************************************************************)
(* C22 as amended.  Whenever a call computes the weighted fusion, input    *)
(* weights whose sum differs from 1.0 are each divided by the sum and      *)
(* input weights that sum to 1.0 are used unchanged; when neither input    *)
(* weight is negative, and nothing overflows, the weights used sum to 1.0  *)
(* up to floating-point rounding, within 2^-49.                            *)
(***************************************************************************)
C22_WeightsSumToOneUpToRounding ==
    \A c \in Callers :
        Fused(c) => /\ DividedBySum(c)
                    /\ (/\ FloatSign(th[c].arg_scut_weight) >= 0
                        /\ FloatSign(th[c].arg_mebeauty_weight) >= 0)
                          => CloseTo(FloatAdd(th[c].scut_weight, th[c].mebeauty_weight),
                                     One, One)

\* weights (1, 3) were divided by 4: the fusion used (0.25, 0.75)
C22_Witness ==
    /\ Fused(1)
    /\ th[1].arg_scut_weight = FloatOfInt(1) /\ th[1].arg_mebeauty_weight = FloatOfInt(3)
    /\ th[1].scut_weight = Dec(1, 4) /\ th[1].mebeauty_weight = Dec(3, 4)
    /\ FloatAdd(th[1].scut_weight, th[1].mebeauty_weight) = One

(***************************************************************************)
(* C23.  In the single-model fallback the fused score is the surviving     *)
(* model's score whatever that model's weight: also when its normalized    *)
(* weight is 0, its raw score is returned as ensemble_score.               *)
(***************************************************************************)
C23_FallbackIgnoresWeight ==
    \A c \in Callers :
        Predicted(c) =>
            /\ (ScutOut(c) # Raise /\ MebeautyOut(c) = Raise)
                  => th[c].result.ensemble_score = ScutOut(c)
            /\ (ScutOut(c) = Raise /\ MebeautyOut(c) # Raise)
                  => th[c].result.ensemble_score = MebeautyOut(c)

\* weights (0, 2) give the SCUT model the weight 0; the MEBeauty prediction
\* failed and the SCUT score 3.0 is returned as the fused score
C23_Witness ==
    /\ Predicted(1)
    /\ th[1].arg_scut_weight = FZero /\ th[1].arg_mebeauty_weight = FloatOfInt(2)
    /\ th[1].scut_weight = FZero
    /\ ScutOut(1) = FloatOfInt(3) /\ MebeautyOut(1) = Raise
    /\ th[1].result.ensemble_score = FloatOfInt(3)

(***************************************************************************)
(* C24.  Within a call the steps occur in the order weight normalization,  *)
(* handle acquisition, preprocessing, prediction, fusion, and no model is  *)
(* invoked unless both handles have been acquired and both tensors         *)
(* prepared.                                                               *)
(***************************************************************************)
\* the stage of predict_beauty_ensemble a step of the trace belongs to
StageOf(name) ==
    CASE name = "normalize" -> 1
      [] name \in {"check_scut", "load_scut", "check_mebeauty", "load_mebeauty"} -> 2
      [] name = "preprocess" -> 3
      [] name \in {"predict_scut", "predict_mebeauty"} -> 4
      [] name = "fuse" -> 5

StagesOf(c) == {StageOf(th[c].steps[i]) : i \in DOMAIN th[c].steps}

C24_StepOrder ==
    \A c \in Callers :
        /\ \A i, j \in DOMAIN th[c].steps :
              i < j => StageOf(th[c].steps[i]) <= StageOf(th[c].steps[j])
        /\ \A k \in StagesOf(c) : k > 1 => k - 1 \in StagesOf(c)
        /\ ("predict_scut" \in StepsOf(c) \/ "predict_mebeauty" \in StepsOf(c))
              => /\ th[c].scut_model # None /\ th[c].mebeauty_model # None
                 /\ th[c].scut_img # None /\ th[c].mebeauty_img # None

\* a call went through all five stages
C24_Witness ==
    /\ th[1].pc = "return"
    /\ StagesOf(1) = 1..5
    /\ th[1].steps[1] = "normalize"
    /\ th[1].steps[Len(th[1].steps)] = "fuse"

(***************************************************************************)
(* C25.  Every call that passes the weight normalization asks for the      *)
(* handle of every model: when the SCUT load fails the MEBeauty handle is  *)
(* still asked for, and loaded if it is not cached, and a handle loaded    *)
(* during a call that fails as a whole stays cached and serves the later   *)
(* calls.                                                                  *)
(***************************************************************************)
\* the trace of the k-th returned call
LogSteps(k) == {log[k].steps[i] : i \in DOMAIN log[k].steps}

\* the handle the k-th returned call got for model m
LogHandle(k, m) == IF m = "scut" THEN log[k].scut_model ELSE log[k].mebeauty_model

\* the k-th returned call asked for both handles
AcquiredAll(k) ==
    /\ {"check_scut", "check_mebeauty"} \subseteq LogSteps(k)
    /\ \A m \in Models : LogHandle(k, m) # None \/ "load_" \o m \in LogSteps(k)

C25_EveryHandleAcquired ==
    /\ \A k \in DOMAIN log : "normalize" \in LogSteps(k) =>
          \/ log[k].result.error = ERR_EXCEPTION /\ LogSteps(k) = {"normalize"}
          \/ AcquiredAll(k)
    /\ \A k, l \in DOMAIN log, m \in Models :
          (k < l /\ log[k].result.error = ERR_LOAD /\ LogHandle(k, m) # None
             /\ "check_" \o m \in LogSteps(l))
              => /\ LogHandle(l, m) = LogHandle(k, m)
                 /\ "load_" \o m \notin LogSteps(l)
                 /\ cache[m] = LogHandle(k, m)

\* the first call failed on the SCUT load and loaded the MEBeauty model; the
\* second call loaded the SCUT model, reused the MEBeauty handle and scored
C25_Witness ==
    /\ Len(log) = 2
    /\ log[1].result.error = ERR_LOAD
    /\ log[1].scut_model = None /\ log[1].mebeauty_model # None
    /\ {"load_scut", "load_mebeauty"} \subseteq LogSteps(1)
    /\ log[2].mebeauty_model = log[1].mebeauty_model
    /\ "load_mebeauty" \notin LogSteps(2)
    /\ log[2].result.ensemble_score # None

(***************************************************************************)
(* C26.  The helpers never raise past their boundary: a failure of         *)
(* load_tflite_model, of a preprocess function or of predict_with_tflite   *)
(* reaches the coordinator as the returned value None and not as an        *)
(* exception.  The coordinator's exception handler is entered only by the  *)
(* division of the weights, before any helper has run, and every helper    *)
(* failure shows as None in the coordinator's variables.                   *)
(***************************************************************************)
\* the getter of model m has returned to caller c, and the load_tflite_model it
\* called for caller c returned None
LoadFailed(c, m) ==
    /\ m \in th[c].failed_loads
    /\ th[c].pc \notin {"construct", "allocate", "store", "read"} \/ th[c].m # m

\* the call of predict_with_tflite for model m has ended
PredictionEnded(c, m) ==
    /\ "predict_" \o m \in StepsOf(c)
    /\ th[c].pc \in {"fuse", "return"} \/ th[c].m # m

\* predict_with_tflite returned None for model m to caller c
PredictionFailed(c, m) ==
    /\ PredictionEnded(c, m)
    /\ (IF m = "scut" THEN th[c].scut_score ELSE th[c].mebeauty_score) = None

C26_HelpersReturnFailures ==
    \A c \in Callers :
        /\ th[c].result.error = ERR_EXCEPTION => StepsOf(c) = {"normalize"}
        /\ \A m \in Models :
              /\ LoadFailed(c, m)
                    => /\ HandleGot(c, m) = None
                       /\ th[c].pc = "return" => th[c].result.error = ERR_LOAD
              \* an inference that raises ends the prediction with None
              /\ (PredictionEnded(c, m) /\ model_output[m][th[c].image.id] = Raise)
                    => PredictionFailed(c, m)
              /\ (PredictionFailed(c, m) /\ th[c].pc = "return")
                    => th[c].result.error \in
                           {ERR_SCUT_FAILED, ERR_MEBEAUTY_FAILED, ERR_BOTH_FAILED}
        /\ PreprocessFailed(c)
              => /\ th[c].scut_img = None \/ th[c].mebeauty_img = None
                 /\ th[c].result.error = ERR_PREPROCESS

\* the SCUT invocation raised inside predict_with_tflite; the coordinator holds
\* None for it and goes on to the MEBeauty prediction
C26_Witness ==
    /\ th[1].pc = "set_tensor" /\ th[1].m = "mebeauty"
    /\ PredictionFailed(1, "scut")
    /\ ScutOut(1) = Raise
    /\ th[1].result.error = None

(***************************************************************************)
(* C27.  predict_with_tflite gives the interpreter a tensor of the         *)
(* declared height and width: a prepared tensor of another height or width *)
(* is resized to the declared shape and the prediction goes on, and a      *)
(* tensor that has the declared shape is given as it is.                   *)
(***************************************************************************)
Dims(tensor) == <<tensor.h, tensor.w>>

C27_TensorFitsDeclaredShape ==
    /\ \A i \in DOMAIN interp :
          interp[i].input # None => Dims(interp[i].input) = interp[i].shape
    /\ \A c \in Callers :
          th[c].pc \in {"invoke", "invoking", "get_tensor"}
              => LET given == interp[HandleOf(th[c]).h].input
                     tensor == TensorOf(th[c])
                 IN  /\ Dims(tensor) = interp[HandleOf(th[c]).h].shape => given = tensor
                     /\ given.px = tensor.px /\ given.of = tensor.of
    /\ \A c \in Callers :
          (th[c].pc = "fuse" /\ ScutOut(c) # Raise /\ MebeautyOut(c) # Raise)
              => th[c].scut_score # None /\ th[c].mebeauty_score # None

\* the MEBeauty file declares 192 x 256; the 224 x 224 tensor was resized and
\* the invocation produced an output
C27_Witness ==
    /\ th[1].pc = "get_tensor" /\ th[1].m = "mebeauty"
    /\ Dims(th[1].mebeauty_img) = DefaultTargetSize
    /\ interp[th[1].mebeauty_model.h].shape = <<192, 256>>
    /\ Dims(interp[th[1].mebeauty_model.h].input) = <<192, 256>>
    /\ interp[th[1].scut_model.h].input = th[1].scut_img

(***************************************************************************)
(* C28.  The two preprocessing profiles are equivalent: for every image    *)
(* and target size preprocess_for_scut and preprocess_for_mebeauty both    *)
(* fail or both return the same tensor, and the two tensors a call has     *)
(* prepared are equal.                                                     *)
(***************************************************************************)
\* the target sizes <<width, height>> the functions are compared at
TargetSizes == {DefaultTargetSize, LargeSize, <<320, 240>>}

Preprocessed(c) == "preprocess" \in StepsOf(c)

C28_ProfilesEquivalent ==
    \A c \in Callers :
        /\ Preprocessed(c) => th[c].scut_img = th[c].mebeauty_img
        /\ th[c].pc # "idle"
              => \A target_size \in TargetSizes :
                    preprocess_for_scut(th[c].image, target_size)
                        = preprocess_for_mebeauty(th[c].image, target_size)

\* a grayscale array was prepared for both models
C28_Witness ==
    /\ th[1].pc = "set_tensor" /\ th[1].m = "scut"
    /\ th[1].image = Grey
    /\ th[1].scut_img # None
    /\ th[1].mebeauty_img = th[1].scut_img
    /\ th[1].scut_img.px = <<90000 - 103939, 90000 - 116779, 90000 - 123680>>

(***************************************************************************)
(* C29.  Preprocessing is deterministic: calls of a preprocess function    *)
(* with the same image return the same tensor, whatever calls came before. *)
(* A call reads what the image holds at that moment, so this needs that no *)
(* call leaves a trace in the image: every tensor is an array of its own,  *)
(* the images hold what they held at the start, and the tensors of two     *)
(* calls with the same image are equal, though models were loaded and      *)
(* interpreters filled in between.                                         *)
(***************************************************************************)
\* the tensor call k of the log prepared for model m
LogTensor(k, m) == IF m = "scut" THEN log[k].scut_img ELSE log[k].mebeauty_img

Flatten(image) ==
    LET rgb == convert_RGB(open(image))
    IN  [image EXCEPT !.mode = rgb.mode, !.px = rgb.px]

C30_AlphaSameAsFlattened ==
    \A c \in Callers :
        (Preprocessed(c) /\ HasAlpha(th[c].image.mode))
            => /\ th[c].scut_img # None /\ th[c].mebeauty_img # None
               /\ th[c].scut_img
                      = preprocess_for_scut(Flatten(th[c].image), DefaultTargetSize)
               /\ th[c].mebeauty_img
                      = preprocess_for_mebeauty(Flatten(th[c].image), DefaultTargetSize)
=============================================================================
